---- MODULE Spec2Model ----
(***************************************************************************)
(* Model of the amplitude engine of the superposition runtime:             *)
(*   src/src/core/Complex.js       - complex amplitudes                    *)
(*   src/src/core/QuantumState.js  - superpositions, measurement, collapse *)
(*   src/src/core/Entanglement.js  - correlations between superpositions   *)
(*                                                                         *)
(* Numbers.  The code computes with IEEE doubles.  The model computes with *)
(* exact values: a real is a rational [n, d]; a Complex is                 *)
(* (re + i*im) / sqrt(den) with integer re, im and den > 0, kept in lowest *)
(* terms.  This set is closed under every operation the engine applies to  *)
(* amplitudes (sum of amplitudes of one state, scaling by 1/sqrt(total))   *)
(* as long as the amplitudes that meet in one basis are commensurable;     *)
(* the actions draw their amplitude arguments accordingly.  Rounding drift *)
(* is therefore not modelled: "within tolerance" reads as "exactly".       *)
(*                                                                         *)
(* Objects.  A heap h = [qs, es] holds the QuantumState objects (qs) and   *)
(* the Entanglement objects (es).  A JS Map is a sequence of entries       *)
(* without duplicate keys and a JS Set is a sequence without duplicates,   *)
(* both in insertion order, which is the order the code iterates them in.  *)
(* Every method is an operator from a heap to a result [h, err, tr, val]:  *)
(* the heap it leaves (also when it throws: whatever it had mutated so far *)
(* stays mutated), the error it threw or "ok", the derivations it ran and  *)
(* its return value.                                                       *)
(***************************************************************************)
EXTENDS Integers, Sequences, FiniteSets, TLC

---------------------------------------------------------------------------
(* Bounds of the model *)

\* operations (constructor and method calls by the caller) per behaviour
MaxOps == 3
\* entries in the array passed to the QuantumState constructor
MaxLen == 2
\* nested derivations before the engine's call stack is exhausted
MaxDepth == 4

\* outcome keys; "undefined" is JS undefined
Keys == {"a", "b"}
Undefined == "undefined"
\* object identities
StateIds == 1..2
EntIds == 1..2
NoObj == [none |-> TRUE]

---------------------------------------------------------------------------
(* Exact arithmetic *)

RECURSIVE Gcd(_, _)
Gcd(a, b) == IF b = 0 THEN a ELSE Gcd(b, a % b)

\* the rational n/d in lowest terms (n >= 0, d > 0)
Rat(n, d) == LET g == Gcd(n, d) IN [n |-> n \div g, d |-> d \div g]

RatZero == [n |-> 0, d |-> 1]

RatAdd(x, y) == Rat(x.n * y.d + y.n * x.d, x.d * y.d)

\* x <= y
RatLeq(x, y) == x.n * y.d <= y.n * x.d

\* n * 10^k < d, without forming 10^k
RECURSIVE LtPow10(_, _, _)
LtPow10(n, d, k) ==
    IF k = 0 \/ n = 0 \/ d <= n THEN n < d ELSE LtPow10(n, (d + 9) \div 10, k - 1)

\* n * 10^k <= d, without forming 10^k
RECURSIVE LeqPow10(_, _, _)
LeqPow10(n, d, k) ==
    IF k = 0 \/ n = 0 \/ d < n THEN n <= d ELSE LeqPow10(n, d \div 10, k - 1)

IsSquare(n) == \E r \in 0..n : r * r = n

---------------------------------------------------------------------------
(* Complex.js *)

\* new Complex(real, imag): the value (re + i*im)/sqrt(den), lowest terms
Complex(re, im, den) ==
    IF re = 0 /\ im = 0 THEN [re |-> 0, im |-> 0, den |-> 1]
    ELSE LET G == {g \in 1..den : re % g = 0 /\ im % g = 0 /\ den % (g * g) = 0}
             g == CHOOSE x \in G : \A y \in G : y <= x
         IN [re |-> re \div g, im |-> im \div g, den |-> den \div (g * g)]

zero == Complex(0, 0, 1)

One == Complex(1, 0, 1)

IsZero(z) == z.re = 0 /\ z.im = 0

\* magnitudeSquared(): real^2 + imag^2
magnitudeSquared(z) == Rat(z.re * z.re + z.im * z.im, z.den)

\* the two amplitudes can be written over one denominator
Commensurable(x, y) ==
    \/ IsZero(x)
    \/ IsZero(y)
    \/ \E k \in 1..y.den : /\ (x.den * k * k) % y.den = 0
                           /\ IsSquare((x.den * k * k) \div y.den)

RECURSIVE Isqrt(_, _)
Isqrt(n, r) == IF r * r = n THEN r ELSE Isqrt(n, r + 1)

\* add(other): componentwise sum, over the least common denominator
add(x, y) ==
    IF IsZero(x) THEN y
    ELSE IF IsZero(y) THEN x
    ELSE LET k1 == CHOOSE k \in 1..y.den :
                      /\ (x.den * k * k) % y.den = 0
                      /\ IsSquare((x.den * k * k) \div y.den)
                      /\ \A j \in 1..(k - 1) :
                            ~ /\ (x.den * j * j) % y.den = 0
                              /\ IsSquare((x.den * j * j) \div y.den)
             D == x.den * k1 * k1
             k2 == Isqrt(D \div y.den, 0)
         IN Complex(x.re * k1 + y.re * k2, x.im * k1 + y.im * k2, D)

\* a normalize() that leaves the amplitudes as they are
scaleInvSqrtUnscaled(z, total) == z

\* scale(1 / Math.sqrt(total)) for a positive rational total
scaleInvSqrt(z, total) ==
    Complex(z.re * total.d, z.im * total.d, z.den * total.n * total.d)

\* equals(other): both components agree (epsilon 1e-12 is below the
\* distance between any two distinct values of the model)
equals(x, y) == x = y

---------------------------------------------------------------------------
(* JS Map (insertion ordered): a sequence of [value, amplitude] entries *)

MapHas(m, k) == \E i \in 1..Len(m) : m[i].value = k

MapIndex(m, k) == CHOOSE i \in 1..Len(m) : m[i].value = k

\* m.get(k) || Complex.zero()
MapGet(m, k) == IF MapHas(m, k) THEN m[MapIndex(m, k)].amplitude ELSE zero

\* m.set(k, a): an existing key keeps its place, a new key goes last
MapSet(m, k, a) ==
    IF MapHas(m, k) THEN [m EXCEPT ![MapIndex(m, k)].amplitude = a]
    ELSE Append(m, [value |-> k, amplitude |-> a])

\* every sum the engine may form over this basis stays in the number system
CommensurableBasis(m) ==
    \A i, j \in 1..Len(m) : Commensurable(m[i].amplitude, m[j].amplitude)

---------------------------------------------------------------------------
(* Results of a call *)

Ok(h, tr) == [h |-> h, err |-> "ok", tr |-> tr, val |-> Undefined]

Throw(h, err, tr) == [h |-> h, err |-> err, tr |-> tr, val |-> Undefined]

Return(r, val) == [r EXCEPT !.val = val]

\* F applied to the value x: a value that is used in several places is
\* written, and visited by TLC's coverage, in one
With(x, F(_)) == F(x)

\* the result r of a method that called Math.random() or not
Drew(r, drew) == [h |-> r.h, err |-> r.err, tr |-> r.tr, val |-> r.val, drew |-> drew]

---------------------------------------------------------------------------
(* QuantumState.js *)

\* 1e-12 and 1e-15, as the exponents of the powers of ten
AMPLITUDE_PRUNE_EPSILON == 12
NORMALIZATION_EPSILON == 15

\* amplitude.magnitude() < AMPLITUDE_PRUNE_EPSILON, compared on the squares
BelowPruneEpsilon(z) ==
    LET m == magnitudeSquared(z) IN LtPow10(m.n, m.d, 2 * AMPLITUDE_PRUNE_EPSILON)

\* _pruneNearZeroAmplitudes(): delete the near-zero entries, throw if none is left
pruneNearZeroAmplitudes(h, s) ==
    LET b == SelectSeq(h.qs[s].basis, LAMBDA e : ~BelowPruneEpsilon(e.amplitude))
        h1 == [h EXCEPT !.qs[s].basis = b]
    IN IF Len(b) = 0 THEN Throw(h1, "degenerate-state", <<>>) ELSE Ok(h1, <<>>)

\* an _updateCollapsedFlags that never sets the flag
updateCollapsedFlagsCleared(h, s) ==
    [h EXCEPT !.qs[s].isCollapsed = FALSE, !.qs[s].collapsedValue = Undefined]

\* _updateCollapsedFlags()
updateCollapsedFlags(h, s) ==
    LET b == h.qs[s].basis
    IN IF Len(b) = 1
       THEN LET c == equals(b[1].amplitude, One)
            IN [h EXCEPT !.qs[s].isCollapsed = c,
                         !.qs[s].collapsedValue = IF c THEN b[1].value ELSE Undefined]
       ELSE [h EXCEPT !.qs[s].isCollapsed = FALSE,
                      !.qs[s].collapsedValue = Undefined]

RECURSIVE SumMagnitudeSquared(_, _)
SumMagnitudeSquared(b, i) ==
    IF i > Len(b) THEN RatZero
    ELSE RatAdd(magnitudeSquared(b[i].amplitude), SumMagnitudeSquared(b, i + 1))

\* getProbabilities(): a fresh Map value -> magnitudeSquared, in basis order
getProbabilities(h, s) ==
    LET b == h.qs[s].basis
    IN [i \in 1..Len(b) |-> [value |-> b[i].value, p |-> magnitudeSquared(b[i].amplitude)]]

RECURSIVE normalize(_, _, _)
RECURSIVE notifyEntanglementUpdates(_, _, _, _, _, _)
RECURSIVE notifyEntangledStates(_, _, _, _, _, _, _)
RECURSIVE updateEntanglement(_, _, _, _)
RECURSIVE onMeasurement(_, _, _, _, _)
RECURSIVE collapseState2(_, _, _, _)
RECURSIVE collapseTo(_, _, _, _, _)

\* normalize(): scale to total probability 1, prune, recompute the flags,
\* push the update to the entanglements
normalize(h, s, fuel) ==
    LET total == SumMagnitudeSquared(h.qs[s].basis, 1)
    IN IF LeqPow10(total.n, total.d, NORMALIZATION_EPSILON)
       THEN Throw(h, "degenerate-state", <<>>)
       ELSE LET b == h.qs[s].basis
                scaled == [i \in 1..Len(b) |->
                              [b[i] EXCEPT !.amplitude = scaleInvSqrt(b[i].amplitude, total)]]
                p == pruneNearZeroAmplitudes([h EXCEPT !.qs[s].basis = scaled], s)
            IN IF p.err # "ok" THEN p
               ELSE LET h3 == updateCollapsedFlags(p.h, s)
                    IN notifyEntanglementUpdates(h3, s, h3.qs[s].entanglements, 1, fuel, <<>>)

\* _notifyEntanglementUpdates(): for (const entanglement of this.entanglements)
notifyEntanglementUpdates(h, s, ents, i, fuel, tr) ==
    IF i > Len(ents) THEN Ok(h, tr)
    ELSE With(updateEntanglement(h, ents[i], s, fuel),
              LAMBDA r : IF r.err # "ok" THEN [r EXCEPT !.tr = tr \o r.tr]
                         ELSE notifyEntanglementUpdates(r.h, s, ents, i + 1, fuel,
                                                        tr \o r.tr))

\* _notifyEntangledStates(measuredValue)
notifyEntangledStates(h, s, ents, i, value, fuel, tr) ==
    IF i > Len(ents) THEN Ok(h, tr)
    ELSE With(onMeasurement(h, ents[i], s, value, fuel),
              LAMBDA r : IF r.err # "ok" THEN [r EXCEPT !.tr = tr \o r.tr]
                         ELSE notifyEntangledStates(r.h, s, ents, i + 1, value, fuel,
                                                    tr \o r.tr))

\* metadata of collapseTo: reason and preMeasurementProbs may be absent
NoMeta == [reason |-> Undefined, hasProbs |-> FALSE, preMeasurementProbs |-> <<>>]

\* a collapseTo that tests the key only after it has replaced the basis and
\* written the record
collapseToThenTest(h, s, value, metadata, fuel) ==
    LET h1 == [h EXCEPT !.qs[s].basis = <<[value |-> value, amplitude |-> One]>>,
                        !.qs[s].isCollapsed = TRUE,
                        !.qs[s].collapsedValue = value,
                        !.qs[s].measurementHistory =
                            Append(@, [result |-> value,
                                       reason |-> "manual-collapse",
                                       preMeasurementProbs |-> <<>>])]
    IN IF ~MapHas(h.qs[s].basis, value) THEN Throw(h1, "not-a-member", <<>>)
       ELSE Ok(h1, <<>>)

\* collapseTo(value, metadata)
collapseTo(h, s, value, metadata, fuel) ==
    IF ~MapHas(h.qs[s].basis, value) THEN Throw(h, "not-a-member", <<>>)
    ELSE LET pre == IF metadata.hasProbs
                    THEN metadata.preMeasurementProbs
                    ELSE getProbabilities(h, s)
             rec == [result |-> value,
                     reason |-> IF metadata.reason = Undefined
                                THEN "manual-collapse" ELSE metadata.reason,
                     preMeasurementProbs |-> pre]
             h1 == [h EXCEPT !.qs[s].basis = <<[value |-> value, amplitude |-> One]>>,
                             !.qs[s].isCollapsed = TRUE,
                             !.qs[s].collapsedValue = value,
                             !.qs[s].measurementHistory = Append(@, rec)]
         IN notifyEntangledStates(h1, s, h1.qs[s].entanglements, 1, value, fuel, <<>>)

---------------------------------------------------------------------------
(* Entanglement.js *)

RECURSIVE InducedBasisOverwriting(_, _, _, _)
\* a loop that overwrites the amplitude of a mapped value already present
InducedBasisOverwriting(b, fn, i, acc) ==
    IF i > Len(b) THEN [ok |-> TRUE, basis |-> acc]
    ELSE LET mappedValue == fn[b[i].value]
         IN IF mappedValue = Undefined THEN [ok |-> FALSE, basis |-> <<>>]
            ELSE InducedBasisOverwriting(b, fn, i + 1,
                     MapSet(acc, mappedValue, b[i].amplitude))

RECURSIVE InducedBasis(_, _, _, _)
\* the loop of updateEntanglement over state1.basis.entries(); not ok when
\* relationFn returns undefined for a key
InducedBasis(b, fn, i, acc) ==
    IF i > Len(b) THEN [ok |-> TRUE, basis |-> acc]
    ELSE LET mappedValue == fn[b[i].value]
         IN IF mappedValue = Undefined THEN [ok |-> FALSE, basis |-> <<>>]
            ELSE InducedBasis(b, fn, i + 1,
                     MapSet(acc, mappedValue, add(MapGet(acc, mappedValue), b[i].amplitude)))

\* updateEntanglement(source); source = 0 is a call without argument
updateEntanglement(h, e, source, fuel) ==
    LET ent == h.es[e]
    IN IF ~ent.isActive THEN Ok(h, <<>>)
       ELSE IF source # 0 /\ source # ent.state1 THEN Ok(h, <<>>)
       ELSE IF fuel = 0 THEN Throw(h, "stack-overflow", <<>>)
       ELSE IF h.qs[ent.state1].isCollapsed
       THEN LET targetValue == ent.relationFn[h.qs[ent.state1].collapsedValue]
            IN IF targetValue = Undefined
               THEN Throw(h, "relation-undefined", <<[k |-> "update", e |-> e]>>)
               ELSE LET r == collapseState2(h, e, targetValue, fuel - 1)
                    IN [r EXCEPT !.tr = <<[k |-> "update", e |-> e]>> \o @]
       ELSE LET inducedBasis == InducedBasis(h.qs[ent.state1].basis, ent.relationFn, 1, <<>>)
            IN IF ~inducedBasis.ok
               THEN Throw(h, "relation-undefined", <<[k |-> "update", e |-> e]>>)
               ELSE LET r == normalize([h EXCEPT !.qs[ent.state2].basis = inducedBasis.basis],
                                       ent.state2, fuel - 1)
                    IN [r EXCEPT !.tr = <<[k |-> "update", e |-> e]>> \o @]

\* an onMeasurement that collapses state2 to the measured value itself
onMeasurementUnmapped(h, e, measuredState, measuredValue, fuel) ==
    LET ent == h.es[e]
    IN IF ~ent.isActive THEN Ok(h, <<>>)
       ELSE IF measuredState # ent.state1 THEN Ok(h, <<>>)
       ELSE IF fuel = 0 THEN Throw(h, "stack-overflow", <<>>)
       ELSE LET r == collapseState2(h, e, measuredValue, fuel - 1)
            IN [r EXCEPT !.tr = <<[k |-> "measurement", e |-> e]>> \o @]

\* an onMeasurement that, called with state2, makes state1 the measured value
onMeasurementEitherEnd(h, e, measuredState, measuredValue, fuel) ==
    LET ent == h.es[e]
    IN IF ~ent.isActive THEN Ok(h, <<>>)
       ELSE IF measuredState = ent.state2
       THEN Ok([h EXCEPT !.qs[ent.state1].basis =
                             <<[value |-> measuredValue, amplitude |-> One]>>,
                         !.qs[ent.state1].isCollapsed = TRUE,
                         !.qs[ent.state1].collapsedValue = measuredValue],
               <<[k |-> "measurement", e |-> e]>>)
       ELSE IF measuredState # ent.state1 THEN Ok(h, <<>>)
       ELSE IF fuel = 0 THEN Throw(h, "stack-overflow", <<>>)
       ELSE LET mappedValue == ent.relationFn[measuredValue]
            IN IF mappedValue = Undefined
               THEN Throw(h, "relation-undefined", <<[k |-> "measurement", e |-> e]>>)
               ELSE LET r == collapseState2(h, e, mappedValue, fuel - 1)
                    IN [r EXCEPT !.tr = <<[k |-> "measurement", e |-> e]>> \o @]

\* onMeasurement(measuredState, measuredValue)
onMeasurement(h, e, measuredState, measuredValue, fuel) ==
    LET ent == h.es[e]
    IN IF ~ent.isActive THEN Ok(h, <<>>)
       ELSE IF measuredState # ent.state1 THEN Ok(h, <<>>)
       ELSE IF fuel = 0 THEN Throw(h, "stack-overflow", <<>>)
       ELSE LET mappedValue == ent.relationFn[measuredValue]
            IN IF mappedValue = Undefined
               THEN Throw(h, "relation-undefined", <<[k |-> "measurement", e |-> e]>>)
               ELSE LET r == collapseState2(h, e, mappedValue, fuel - 1)
                    IN [r EXCEPT !.tr = <<[k |-> "measurement", e |-> e]>> \o @]

\* _collapseState2(value)
collapseState2(h, e, value, fuel) ==
    LET t == h.es[e].state2
    IN IF MapHas(h.qs[t].basis, value)
       THEN collapseTo(h, t, value,
                [NoMeta EXCEPT !.reason = "entanglement-collapse"], fuel)
       ELSE Ok([h EXCEPT !.qs[t].basis = <<[value |-> value, amplitude |-> One]>>,
                         !.qs[t].isCollapsed = TRUE,
                         !.qs[t].collapsedValue = value,
                         !.qs[t].measurementHistory =
                             Append(@, [result |-> value,
                                        reason |-> "entanglement-collapse",
                                        preMeasurementProbs |-> <<>>])],
               <<>>)

\* new Entanglement(state1, state2, relationFn) into the free slot e
NewEntanglement(h, e, state1, state2, relationFn) ==
    IF state1 = state2 THEN Throw(h, "invalid-argument", <<>>)
    ELSE LET h1 == [h EXCEPT !.es[e] = [state1 |-> state1, state2 |-> state2,
                                       relationFn |-> relationFn, isActive |-> TRUE],
                             !.qs[state1].entanglements = Append(@, e),
                             !.qs[state2].entanglements = Append(@, e)]
         IN updateEntanglement(h1, e, 0, MaxDepth)

\* a dispose that forgets the set of state1
disposeFromTarget(h, e) ==
    LET ent == h.es[e]
    IN IF ~ent.isActive THEN Ok(h, <<>>)
       ELSE Ok([h EXCEPT !.es[e].isActive = FALSE,
                         !.qs[ent.state2].entanglements = SelectSeq(@, LAMBDA x : x # e)],
               <<>>)

\* dispose()
dispose(h, e) ==
    LET ent == h.es[e]
    IN IF ~ent.isActive THEN Ok(h, <<>>)
       ELSE Ok([h EXCEPT !.es[e].isActive = FALSE,
                         !.qs[ent.state1].entanglements = SelectSeq(@, LAMBDA x : x # e),
                         !.qs[ent.state2].entanglements = SelectSeq(@, LAMBDA x : x # e)],
               <<>>)

---------------------------------------------------------------------------
(* QuantumState.js: the public methods *)

RECURSIVE AccumulateOverwriting(_, _, _)
\* a loop that keeps the last amplitude listed for a value
AccumulateOverwriting(list, i, acc) ==
    IF i > Len(list) THEN acc
    ELSE AccumulateOverwriting(list, i + 1, MapSet(acc, list[i].value, list[i].amplitude))

RECURSIVE Accumulate(_, _, _)
\* the constructor's loop: basis.set(value, (basis.get(value) || zero).add(amplitude))
Accumulate(list, i, acc) ==
    IF i > Len(list) THEN acc
    ELSE Accumulate(list, i + 1,
             MapSet(acc, list[i].value, add(MapGet(acc, list[i].value), list[i].amplitude)))

\* new QuantumState(basis) into the free slot s
NewQuantumState(h, s, list) ==
    IF Len(list) = 0 THEN Throw(h, "empty-input", <<>>)
    ELSE LET obj == [basis |-> Accumulate(list, 1, <<>>),
                     entanglements |-> <<>>,
                     measurementHistory |-> <<>>,
                     isCollapsed |-> FALSE,
                     collapsedValue |-> Undefined]
         IN \* a constructor that throws leaves no object behind
            With(With(pruneNearZeroAmplitudes([h EXCEPT !.qs[s] = obj], s),
                      LAMBDA p : IF p.err # "ok" THEN p ELSE normalize(p.h, s, MaxDepth)),
                 LAMBDA r : IF r.err # "ok" THEN Throw(h, r.err, r.tr) ELSE r)

\* a value that is not an instance of Complex
NotComplex == [re |-> 0, im |-> 0, den |-> 0]

\* setAmplitude(value, amplitude)
setAmplitude(h, s, value, amplitude) ==
    IF amplitude = NotComplex THEN Throw(h, "invalid-argument", <<>>)
    ELSE LET p == pruneNearZeroAmplitudes(
                      [h EXCEPT !.qs[s].basis = MapSet(@, value, amplitude)], s)
         IN IF p.err # "ok" THEN p
            ELSE IF Len(p.h.qs[s].basis) = 0 THEN Throw(p.h, "degenerate-state", <<>>)
            ELSE normalize(p.h, s, MaxDepth)

\* stabilize()
stabilize(h, s) ==
    LET p == pruneNearZeroAmplitudes(h, s)
    IN IF p.err # "ok" THEN p ELSE normalize(p.h, s, MaxDepth)

RECURSIVE Walk(_, _, _, _)
\* the walk of measure(): the first value whose cumulative probability
\* reaches rand, Undefined when the walk ends without one
Walk(probabilities, i, cumulative, rand) ==
    IF i > Len(probabilities) THEN Undefined
    ELSE LET c == RatAdd(cumulative, probabilities[i].p)
         IN IF RatLeq(rand, c) THEN probabilities[i].value
            ELSE Walk(probabilities, i + 1, c, rand)

\* measure(), with rand the value Math.random() returns if it is called
measure(h, s, rand) ==
    IF h.qs[s].isCollapsed THEN Drew(Return(Ok(h, <<>>), h.qs[s].collapsedValue), FALSE)
    ELSE LET probabilities == getProbabilities(h, s)
             walked == Walk(probabilities, 1, RatZero, rand)
             b == h.qs[s].basis
             measuredValue == IF walked # Undefined THEN walked
                              ELSE IF Len(b) = 0 THEN Undefined
                              ELSE b[Len(b)].value
             r == collapseTo(h, s, measuredValue,
                      [reason |-> "measurement", hasProbs |-> TRUE,
                       preMeasurementProbs |-> probabilities], MaxDepth)
         IN Drew(IF r.err # "ok" THEN r ELSE Return(r, measuredValue), TRUE)

---------------------------------------------------------------------------
(* The caller: one action per constructor or public method *)

VARIABLES
    h,         \* the heap [qs, es]
    ret,       \* the last call: what was called, on what, and how it ended
    failed,    \* some call so far has thrown
    ops,       \* calls made so far
    measured,  \* per QuantumState, the value its last successful measure() returned
    refs       \* the Entanglements the caller holds: those whose constructor returned

vars == <<h, ret, failed, ops, measured, refs>>

\* amplitudes passed to the constructor
CtorAmps == {zero, One, Complex(-1, 0, 1), Complex(0, 1, 1), Complex(2, 0, 1)}

\* amplitudes passed to setAmplitude
SetAmps == {zero, One, Complex(-1, 0, 1), Complex(-1, 0, 2), NotComplex}

\* values Math.random() returns, in [0, 1)
RandSamples == {Rat(0, 1), Rat(1, 2), Rat(9, 10)}

\* relation functions: identity, swap, constant, and one that is undefined on "b"
RelationFns ==
    { [k \in Keys |-> k],
      [k \in Keys |-> IF k = "a" THEN "b" ELSE "a"],
      [k \in Keys |-> "a"],
      [k \in Keys |-> IF k = "a" THEN "b" ELSE Undefined] }

\* the arrays the QuantumStates of the main specification are constructed from:
\* one outcome, two equal outcomes and, for the first, two unequal outcomes
SeedLists(s) ==
    { <<[value |-> "a", amplitude |-> One]>>,
      <<[value |-> "a", amplitude |-> One], [value |-> "b", amplitude |-> One]>> }
    \cup IF s = 1
         THEN {<<[value |-> "b", amplitude |-> Complex(2, 0, 1)],
                 [value |-> "a", amplitude |-> Complex(-1, 0, 1)]>>}
         ELSE {}

Entries == [value : Keys, amplitude : CtorAmps]

Lists == UNION {[1..n -> Entries] : n \in 0..MaxLen}

Live(s) == h.qs[s] # NoObj

LiveEnt(e) == h.es[e] # NoObj

\* the slot a new object goes to
FreeEnt(e) == ~LiveEnt(e) /\ \A x \in EntIds : x < e => LiveEnt(x)

EmptyHeap == [qs |-> [s \in StateIds |-> NoObj], es |-> [e \in EntIds |-> NoObj]]

\* the heaps the caller starts from: the QuantumStates, each constructed from
\* an array, and either no Entanglement or a first one, constructed from the
\* first QuantumState to the second
InitHeaps ==
    UNION { LET h0 == [EmptyHeap EXCEPT !.qs =
                         [s \in StateIds |-> NewQuantumState(EmptyHeap, s, seed[s]).h.qs[s]]]
            IN {h0} \cup {NewEntanglement(h0, 1, 1, 2, fn).h :
                             fn \in {f \in RelationFns :
                                        NewEntanglement(h0, 1, 1, 2, f).err = "ok"}}
            : seed \in {f \in [StateIds -> UNION {SeedLists(s) : s \in StateIds}] :
                           \A s \in StateIds : f[s] \in SeedLists(s)} }

Init ==
    /\ h \in InitHeaps
    /\ ret = [op |-> "none", id |-> 0, status |-> "ok", val |-> Undefined,
              drew |-> FALSE, rand |-> RatZero, tr |-> <<>>]
    /\ failed = FALSE
    /\ ops = 0
    /\ measured = [s \in StateIds |-> Undefined]
    /\ refs = {e \in EntIds : h.es[e] # NoObj}

\* the bookkeeping every call shares
Called(op, id, r, drew, rand) ==
    /\ ops < MaxOps
    /\ ops' = ops + 1
    /\ failed' = (failed \/ r.err # "ok")
    /\ ret' = [op |-> op, id |-> id, status |-> r.err, val |-> r.val,
               drew |-> drew, rand |-> rand, tr |-> r.tr]

\* the amplitudes setAmplitude(value, .) is called with on s
SetAmpsFor(s, value) ==
    {z \in SetAmps : \/ z = NotComplex
                     \/ CommensurableBasis(MapSet(h.qs[s].basis, value, z))}

SetAmplitude ==
    \E s \in StateIds, value \in Keys :
      \E amplitude \in SetAmpsFor(s, value) :
        /\ Live(s)
        /\ LET r == setAmplitude(h, s, value, amplitude)
           IN /\ Called("setAmplitude", s, r, FALSE, RatZero)
              /\ h' = r.h
        /\ UNCHANGED <<measured, refs>>

Normalize ==
    \E s \in StateIds :
        /\ Live(s)
        /\ LET r == normalize(h, s, MaxDepth)
           IN /\ Called("normalize", s, r, FALSE, RatZero)
              /\ h' = r.h
        /\ UNCHANGED <<measured, refs>>

Stabilize ==
    \E s \in StateIds :
        /\ Live(s)
        /\ LET r == stabilize(h, s)
           IN /\ Called("stabilize", s, r, FALSE, RatZero)
              /\ h' = r.h
        /\ UNCHANGED <<measured, refs>>

Measure ==
    \E s \in StateIds, rand \in RandSamples :
        /\ Live(s)
        /\ LET r == measure(h, s, rand)
           IN /\ Called("measure", s, r, r.drew, IF r.drew THEN rand ELSE RatZero)
              /\ h' = r.h
              /\ measured' = IF r.err = "ok" THEN [measured EXCEPT ![s] = r.val]
                             ELSE measured
        /\ UNCHANGED refs

CollapseTo ==
    \E s \in StateIds, value \in Keys :
        /\ Live(s)
        /\ LET r == collapseTo(h, s, value, NoMeta, MaxDepth)
           IN /\ Called("collapseTo", s, r, FALSE, RatZero)
              /\ h' = r.h
        /\ UNCHANGED <<measured, refs>>

Entangle ==
    \E e \in EntIds, state1 \in StateIds, state2 \in StateIds, relationFn \in RelationFns :
        /\ FreeEnt(e)
        /\ Live(state1)
        /\ Live(state2)
        /\ LET r == NewEntanglement(h, e, state1, state2, relationFn)
           IN /\ Called("entangle", e, r, FALSE, RatZero)
              /\ h' = r.h
              /\ refs' = IF r.err = "ok" THEN refs \cup {e} ELSE refs
        /\ UNCHANGED measured

UpdateEntanglement ==
    \E e \in EntIds, source \in {0} \cup StateIds :
        /\ e \in refs
        /\ source # 0 => Live(source)
        /\ LET r == updateEntanglement(h, e, source, MaxDepth)
           IN /\ Called("updateEntanglement", e, r, FALSE, RatZero)
              /\ h' = r.h
        /\ UNCHANGED <<measured, refs>>

OnMeasurement ==
    \E e \in EntIds, measuredState \in StateIds, measuredValue \in Keys :
        /\ e \in refs
        /\ Live(measuredState)
        /\ LET r == onMeasurement(h, e, measuredState, measuredValue, MaxDepth)
           IN /\ Called("onMeasurement", e, r, FALSE, RatZero)
              /\ h' = r.h
        /\ UNCHANGED <<measured, refs>>

Dispose ==
    \E e \in EntIds :
        /\ e \in refs
        /\ LET r == dispose(h, e)
           IN /\ Called("dispose", e, r, FALSE, RatZero)
              /\ h' = r.h
        /\ UNCHANGED <<measured, refs>>

Next ==
    \/ SetAmplitude
    \/ Normalize
    \/ Stabilize
    \/ Measure
    \/ CollapseTo
    \/ Entangle
    \/ UpdateEntanglement
    \/ OnMeasurement
    \/ Dispose

Spec == Init /\ [][Next]_vars

---------------------------------------------------------------------------
(* Vocabulary of the properties *)

\* the transition is a call of op
Step(op) == ops' = ops + 1 /\ ret'.op = op

\* the invariants of a superposition: non-empty, no entry below the prune
\* epsilon, total probability 1
Valid(q) ==
    /\ Len(q.basis) > 0
    /\ \A i \in 1..Len(q.basis) : ~BelowPruneEpsilon(q.basis[i].amplitude)
    /\ SumMagnitudeSquared(q.basis, 1) = Rat(1, 1)

\* the collapsed flag says that one entry with amplitude (1,0) is left, and
\* collapsedValue is its key
FlagsConsistent(q) ==
    /\ q.isCollapsed <=> (Len(q.basis) = 1 /\ q.basis[1].amplitude = One)
    /\ q.isCollapsed => q.collapsedValue = q.basis[1].value
    /\ ~q.isCollapsed => q.collapsedValue = Undefined

ActiveEnt(hh, e) == hh.es[e] # NoObj /\ hh.es[e].isActive

\* no active Entanglement has s as its target
NoInbound(hh, s) == \A e \in EntIds : ActiveEnt(hh, e) => hh.es[e].state2 # s

\* e is the only active Entanglement into its target
OnlyInbound(hh, e) ==
    \A x \in EntIds : (x # e /\ ActiveEnt(hh, x)) => hh.es[x].state2 # hh.es[e].state2

---------------------------------------------------------------------------
(* C1 *)

\* C1: as long as every call so far has succeeded, every superposition is
\* non-empty, holds no entry below the prune epsilon and has total
\* probability 1.
C1_InvariantsAfterSuccess ==
    ~failed => \A s \in StateIds : Live(s) => Valid(h.qs[s])

\* a successful setAmplitude that added an outcome to a collapsed source, was
\* renormalized and pushed through an Entanglement to a two-outcome target
C1_Witness ==
    /\ ~failed
    /\ ret.op = "setAmplitude"
    /\ ret.status = "ok"
    /\ Len(ret.tr) > 0
    /\ Len(h.qs[ret.id].basis) = 2
    /\ \E e \in EntIds :
          /\ ActiveEnt(h, e)
          /\ h.es[e].state1 = ret.id
          /\ Len(h.qs[h.es[e].state2].basis) = 2
          /\ Valid(h.qs[h.es[e].state2])

---------------------------------------------------------------------------
(* C2 *)

\* C2 (as claimed): measure() on a collapsed superposition returns
\* collapsedValue, draws no sample, runs no derivation and leaves the whole
\* heap (bases, audit logs) as it was; and two consecutive successful
\* measure() calls on a superposition return the same value.
C2_MeasureIdempotent ==
    [][ Step("measure") =>
            /\ h.qs[ret'.id].isCollapsed =>
                  /\ ret'.status = "ok"
                  /\ ret'.val = h.qs[ret'.id].collapsedValue
                  /\ ~ret'.drew
                  /\ ret'.tr = <<>>
                  /\ h' = h
            /\ (ret.op = "measure" /\ ret.id = ret'.id
                    /\ ret.status = "ok" /\ ret'.status = "ok")
                   => ret'.val = ret.val ]_vars

\* the part of C2 about a collapsed superposition holds in every state
C2_NoResampling ==
    [][ (Step("measure") /\ h.qs[ret'.id].isCollapsed) =>
            /\ ret'.status = "ok"
            /\ ret'.val = h.qs[ret'.id].collapsedValue
            /\ ~ret'.drew
            /\ ret'.tr = <<>>
            /\ h' = h ]_vars

\* two consecutive measure() calls agree as long as no call has thrown
C2_ConsecutiveWhileNoThrow ==
    [][ (Step("measure") /\ ~failed /\ ret.op = "measure" /\ ret.id = ret'.id
            /\ ret'.status = "ok")
           => ret'.val = ret.val ]_vars

---------------------------------------------------------------------------
(* C3 *)

\* s is collapsed to the value its last measure() returned
CollapsedToMeasured(hh, s) ==
    /\ measured[s] # Undefined
    /\ hh.qs[s].isCollapsed
    /\ hh.qs[s].collapsedValue = measured[s]

\* C3 (as claimed): once measure() has returned v on a superposition, it is
\* still collapsed to v after every successful setAmplitude, normalize or
\* stabilize on it or on another superposition.
C3_CollapsePermanent ==
    [][ \A s \in StateIds :
          (/\ Live(s)
           /\ CollapsedToMeasured(h, s)
           /\ \E op \in {"setAmplitude", "normalize", "stabilize"} : Step(op)
           /\ ret'.status = "ok")
          => (h'.qs[s].isCollapsed /\ h'.qs[s].collapsedValue = measured[s]) ]_vars

\* C3 (amended): once measure() has returned v on a superposition that is
\* no active Entanglement's target, every call other than a setAmplitude or
\* collapseTo on it, and other than one that makes it a target, leaves it
\* collapsed to v, and a measure() on it returns v.
C3_CollapseKeptUnlessOverwritten ==
    [][ \A s \in StateIds :
          (/\ Live(s)
           /\ CollapsedToMeasured(h, s)
           /\ ops' = ops + 1
           /\ ~(ret'.op \in {"setAmplitude", "collapseTo"} /\ ret'.id = s)
           /\ NoInbound(h, s)
           /\ NoInbound(h', s))
          => /\ h'.qs[s].isCollapsed
             /\ h'.qs[s].collapsedValue = measured[s]
             /\ (ret'.op = "measure" /\ ret'.id = s) => ret'.val = measured[s] ]_vars

\* a source of an active Entanglement that a measure() had collapsed was
\* normalized or stabilized, which pushed a derivation, and is still
\* collapsed to the measured value
C3_Witness ==
    /\ ret.op \in {"normalize", "stabilize"}
    /\ ret.status = "ok"
    /\ Len(ret.tr) > 0
    /\ CollapsedToMeasured(h, ret.id)
    /\ \E i \in 1..Len(h.qs[ret.id].measurementHistory) :
          h.qs[ret.id].measurementHistory[i].reason = "measurement"
    /\ NoInbound(h, ret.id)

---------------------------------------------------------------------------
(* C4 *)

\* the target of e is collapsed to value with probability 1
TargetCollapsedTo(hh, e, value) ==
    LET t == hh.qs[hh.es[e].state2]
    IN /\ t.isCollapsed
       /\ t.collapsedValue = value
       /\ t.basis = <<[value |-> value, amplitude |-> One]>>

\* C4 (as claimed): whenever measure() on the source of an active
\* Entanglement returns v, the target is collapsed to relationFn(v) with
\* probability 1.
C4_MeasureCollapsesTarget ==
    [][ (Step("measure") /\ ret'.status = "ok") =>
           \A e \in EntIds :
              (ActiveEnt(h, e) /\ h.es[e].state1 = ret'.id)
                 => TargetCollapsedTo(h', e, h.es[e].relationFn[ret'.val]) ]_vars

\* C4 (amended): whenever measure() on the uncollapsed source of an active
\* Entanglement returns v, where the Entanglement is the only active one into
\* its target and the source is no active Entanglement's target, the target
\* is collapsed to relationFn(v) with probability 1, by the Entanglement's
\* onMeasurement and without a measure() of the target.
C4_MeasureCollapsesOnlyTarget ==
    [][ (Step("measure") /\ ret'.status = "ok" /\ ret'.drew) =>
           \A e \in EntIds :
              (/\ ActiveEnt(h, e)
               /\ h.es[e].state1 = ret'.id
               /\ OnlyInbound(h, e)
               /\ NoInbound(h, ret'.id))
                 => /\ TargetCollapsedTo(h', e, h.es[e].relationFn[ret'.val])
                    /\ \E i \in 1..Len(ret'.tr) :
                          ret'.tr[i] = [k |-> "measurement", e |-> e] ]_vars

\* measure() drew a value on a source whose target is now collapsed to a
\* different value, the image of the measured one
C4_Witness ==
    /\ ret.op = "measure"
    /\ ret.status = "ok"
    /\ ret.drew
    /\ \E e \in EntIds :
          /\ ActiveEnt(h, e)
          /\ h.es[e].state1 = ret.id
          /\ OnlyInbound(h, e)
          /\ NoInbound(h, ret.id)
          /\ h.es[e].relationFn[ret.val] # ret.val
          /\ TargetCollapsedTo(h, e, h.es[e].relationFn[ret.val])

---------------------------------------------------------------------------
(* C5 *)

RECURSIVE SumOfPreimage(_, _, _, _)
\* the sum of the amplitudes of the entries of b from i on that fn maps to k
SumOfPreimage(b, fn, k, i) ==
    IF i > Len(b) THEN zero
    ELSE IF fn[b[i].value] = k
         THEN add(b[i].amplitude, SumOfPreimage(b, fn, k, i + 1))
         ELSE SumOfPreimage(b, fn, k, i + 1)

RECURSIVE InducedTotal(_, _, _)
\* the total squared magnitude of the sums over the keys in S
InducedTotal(b, fn, S) ==
    IF S = {} THEN RatZero
    ELSE LET k == CHOOSE x \in S : TRUE
         IN RatAdd(magnitudeSquared(SumOfPreimage(b, fn, k, 1)),
                   InducedTotal(b, fn, S \ {k}))

\* target is the basis induced by source through fn, renormalized: at each
\* key the sum of the amplitudes mapped to it, over the square root of the
\* total, and no entry for a key nothing is mapped to
IsInduced(target, source, fn) ==
    LET total == InducedTotal(source, fn, Keys)
    IN /\ \A i \in 1..Len(source) : fn[source[i].value] # Undefined
       /\ total.n > 0
       /\ \A k \in Keys :
             MapGet(target, k) = scaleInvSqrt(SumOfPreimage(source, fn, k, 1), total)
       /\ \A i \in 1..Len(target) : ~IsZero(target[i].amplitude)

\* the step constructed e on a source in superposition, or changed the
\* source of e
DerivesThrough(e) ==
    /\ ops' = ops + 1
    /\ ret'.status = "ok"
    /\ ActiveEnt(h', e)
    /\ \/ /\ ret'.op = "entangle"
          /\ ret'.id = e
          /\ ~LiveEnt(e)
          /\ ~h.qs[h'.es[e].state1].isCollapsed
       \/ /\ ret'.op \in {"setAmplitude", "normalize", "stabilize"}
          /\ ret'.id = h'.es[e].state1
          /\ ActiveEnt(h, e)

\* C5 (as claimed): when an Entanglement is constructed on a source in
\* superposition, and after every successful setAmplitude, normalize or
\* stabilize of its source, the target's basis is the basis induced by the
\* source through relationFn, renormalized.
C5_TargetIsInduced ==
    [][ \A e \in EntIds :
          DerivesThrough(e) =>
             IsInduced(h'.qs[h'.es[e].state2].basis,
                       h'.qs[h'.es[e].state1].basis, h'.es[e].relationFn) ]_vars

\* C5 (amended): the same, for an Entanglement that is the only active one
\* into its target and whose source is no active Entanglement's target.
C5_OnlyTargetIsInduced ==
    [][ \A e \in EntIds :
          (DerivesThrough(e) /\ OnlyInbound(h', e) /\ NoInbound(h', h'.es[e].state1)) =>
             IsInduced(h'.qs[h'.es[e].state2].basis,
                       h'.qs[h'.es[e].state1].basis, h'.es[e].relationFn) ]_vars

\* a change of a source with two outcomes that relationFn maps to one value
C5_Witness ==
    /\ ret.op \in {"setAmplitude", "normalize", "stabilize"}
    /\ ret.status = "ok"
    /\ \E e \in EntIds :
          /\ ActiveEnt(h, e)
          /\ h.es[e].state1 = ret.id
          /\ OnlyInbound(h, e)
          /\ NoInbound(h, ret.id)
          /\ Len(h.qs[ret.id].basis) = 2
          /\ h.es[e].relationFn["a"] = h.es[e].relationFn["b"]
          /\ [k |-> "update", e |-> e] \in {ret.tr[i] : i \in 1..Len(ret.tr)}
          /\ IsInduced(h.qs[h.es[e].state2].basis, h.qs[ret.id].basis, h.es[e].relationFn)

---------------------------------------------------------------------------
(* C6 *)

\* C6 (as claimed): a setAmplitude that throws leaves the superposition's
\* basis, collapsed flag and value and audit log as they were.
C6_FailedSetAmplitudeLeavesState ==
    [][ (Step("setAmplitude") /\ ret'.status # "ok") =>
            h'.qs[ret'.id] = h.qs[ret'.id] ]_vars

---------------------------------------------------------------------------
(* C7: the constructor on every array of up to MaxLen entries *)

InitCtor ==
    /\ h = EmptyHeap
    /\ ret = [op |-> "none", id |-> 0, status |-> "ok", list |-> <<>>]
    /\ failed = FALSE
    /\ ops = 0
    /\ measured = [s \in StateIds |-> Undefined]
    /\ refs = {}

Construct ==
    \E list \in Lists :
        /\ ops = 0
        /\ LET r == NewQuantumState(h, 1, list)
           IN /\ h' = r.h
              /\ ret' = [op |-> "construct", id |-> 1, status |-> r.err, list |-> list]
              /\ failed' = (r.err # "ok")
        /\ ops' = 1
        /\ UNCHANGED <<measured, refs>>

NextCtor == Construct

SpecCtor == InitCtor /\ [][NextCtor]_vars

RECURSIVE ListSum(_, _, _)
\* the sum of the amplitudes listed for k from entry i on
ListSum(list, k, i) ==
    IF i > Len(list) THEN zero
    ELSE IF list[i].value = k
         THEN add(list[i].amplitude, ListSum(list, k, i + 1))
         ELSE ListSum(list, k, i + 1)

RECURSIVE ListTotal(_, _)
\* the total squared magnitude of the sums for the keys in S
ListTotal(list, S) ==
    IF S = {} THEN RatZero
    ELSE LET k == CHOOSE x \in S : TRUE
         IN RatAdd(magnitudeSquared(ListSum(list, k, 1)), ListTotal(list, S \ {k}))

---------------------------------------------------------------------------
(* C8 *)

\* basis, collapsed flag and value and audit log of q1 and q2 agree
SameState(q1, q2) ==
    /\ q1.basis = q2.basis
    /\ q1.isCollapsed = q2.isCollapsed
    /\ q1.collapsedValue = q2.collapsedValue
    /\ q1.measurementHistory = q2.measurementHistory

InSet(hh, e, s) == \E i \in 1..Len(hh.qs[s].entanglements) : hh.qs[s].entanglements[i] = e

Disposed(hh, e) == hh.es[e] # NoObj /\ ~hh.es[e].isActive

SourceOps == {"measure", "collapseTo", "setAmplitude", "normalize", "stabilize"}

EntOps == {"dispose", "updateEntanglement", "onMeasurement"}

\* C8 (as claimed): a disposed Entanglement is in neither endpoint's set; a
\* later measure, collapseTo, setAmplitude, normalize or stabilize on its
\* source leaves its target as it was; dispose, updateEntanglement and
\* onMeasurement on it change nothing.
C8_DisposedIsInert ==
    [][ \A e \in EntIds :
          /\ Disposed(h', e) =>
                (~InSet(h', e, h'.es[e].state1) /\ ~InSet(h', e, h'.es[e].state2))
          /\ (Disposed(h, e) /\ ops' = ops + 1) =>
                /\ (ret'.op \in SourceOps /\ ret'.id = h.es[e].state1)
                      => SameState(h'.qs[h.es[e].state2], h.qs[h.es[e].state2])
                /\ (ret'.op \in EntOps /\ ret'.id = e)
                      => (h' = h /\ ret'.status = "ok") ]_vars

\* C8 (amended): the same, where the target is left as it was by a call on
\* the source when no active Entanglement has it as its target.
C8_DisposedIsInertUnlessOtherLink ==
    [][ \A e \in EntIds :
          /\ Disposed(h', e) =>
                (~InSet(h', e, h'.es[e].state1) /\ ~InSet(h', e, h'.es[e].state2))
          /\ (Disposed(h, e) /\ ops' = ops + 1) =>
                /\ (ret'.op \in SourceOps /\ ret'.id = h.es[e].state1
                        /\ NoInbound(h, h.es[e].state2))
                      => SameState(h'.qs[h.es[e].state2], h.qs[h.es[e].state2])
                /\ (ret'.op \in EntOps /\ ret'.id = e)
                      => (h' = h /\ ret'.status = "ok") ]_vars

\* a measure() drew a value on the source of a disposed Entanglement and the
\* target is still in superposition
C8_Witness ==
    /\ ret.op = "measure"
    /\ ret.status = "ok"
    /\ ret.drew
    /\ \E e \in EntIds :
          /\ Disposed(h, e)
          /\ h.es[e].state1 = ret.id
          /\ NoInbound(h, h.es[e].state2)
          /\ ~h.qs[h.es[e].state2].isCollapsed

---------------------------------------------------------------------------
(* C9 *)

\* C9 (as claimed): in every reachable state the collapsed flag is true
\* exactly when one entry with amplitude (1,0) is left, collapsedValue is
\* then its key, and it is undefined when the flag is false.
C9_FlagsConsistent ==
    \A s \in StateIds : Live(s) => FlagsConsistent(h.qs[s])

\* the flags are consistent as long as no call has thrown
C9_FlagsConsistentWhileNoThrow ==
    ~failed => \A s \in StateIds : Live(s) => FlagsConsistent(h.qs[s])

---------------------------------------------------------------------------
(* C10 *)

\* the cumulative probability of the first i entries of b
Cumulative(b, i) == SumMagnitudeSquared(SubSeq(b, 1, i), 1)

\* the first key of b whose cumulative probability is at least r, the last
\* key when there is none
Sampled(b, r) ==
    IF \E i \in 1..Len(b) : RatLeq(r, Cumulative(b, i))
    THEN b[CHOOSE i \in 1..Len(b) :
              /\ RatLeq(r, Cumulative(b, i))
              /\ \A j \in 1..(i - 1) : ~RatLeq(r, Cumulative(b, j))].value
    ELSE b[Len(b)].value

\* measure() on q with sample r succeeded with the sampled key and left q2
MeasuredAsSampled(q, q2, r) ==
    /\ Len(q.basis) > 0
    /\ ret'.status = "ok"
    /\ ret'.drew
    /\ LET v == Sampled(q.basis, r)
       IN /\ ret'.val = v
          /\ q2.basis = <<[value |-> v, amplitude |-> One]>>
          /\ q2.isCollapsed
          /\ q2.collapsedValue = v
          /\ q2.measurementHistory =
                Append(q.measurementHistory,
                       [result |-> v, reason |-> "measurement",
                        preMeasurementProbs |->
                           [i \in 1..Len(q.basis) |->
                              [value |-> q.basis[i].value,
                               p |-> magnitudeSquared(q.basis[i].amplitude)]]])

\* C10 (as claimed): measure() on an uncollapsed superposition succeeds,
\* draws one sample r, returns the first key whose cumulative probability
\* is at least r (the last key when there is none), and leaves the basis
\* that key with amplitude (1,0), the flags set to it and one more audit
\* record, with reason "measurement" and the distribution before the call.
C10_MeasureSamples ==
    [][ (Step("measure") /\ ~h.qs[ret'.id].isCollapsed) =>
           MeasuredAsSampled(h.qs[ret'.id], h'.qs[ret'.id], ret'.rand) ]_vars

\* the same holds as long as no call before it has thrown
C10_MeasureSamplesWhileNoThrow ==
    [][ (Step("measure") /\ ~h.qs[ret'.id].isCollapsed /\ ~failed) =>
           MeasuredAsSampled(h.qs[ret'.id], h'.qs[ret'.id], ret'.rand) ]_vars

---------------------------------------------------------------------------
(* Operators and control flow:                                             *)
(*   src/src/operators/Interference.js - weighted amplitude summation      *)
(*   src/src/operators/QuantumGates.js - hadamard, phase, rotate, amplify  *)
(*   src/src/control/QuantumLoops.js   - quantumIf, quantumSwitch,         *)
(*                                       quantumFor, quantumWhile          *)
(* These functions build their result with new QuantumState(...).  A new   *)
(* object is appended to h.qs and is known by its index, its reference.    *)
(* A real number is written as a Complex with im = 0: n / sqrt(den).       *)

\* largest iteration count passed to quantumFor and quantumWhile
MaxIter == 2

(* Complex.js, continued *)

\* subtract(other)
subtract(x, y) == add(x, Complex(-y.re, -y.im, y.den))

\* multiply(other): (a + bi)(c + di) = (ac - bd) + (ad + bc)i
multiply(x, y) ==
    Complex(x.re * y.re - x.im * y.im, x.re * y.im + x.im * y.re, x.den * y.den)

\* scale(scalar) for the real scalar.re / sqrt(scalar.den)
scale(z, scalar) == Complex(z.re * scalar.re, z.im * scalar.re, z.den * scalar.den)

\* the real number n / sqrt(den)
Real(n, den) == Complex(n, 0, den)

\* Complex.fromPolar(1, phase) for phase = eighths * pi / 4
fromPolar(eighths) ==
    CASE eighths % 8 = 0 -> Complex(1, 0, 1)
      [] eighths % 8 = 1 -> Complex(1, 1, 2)
      [] eighths % 8 = 2 -> Complex(0, 1, 1)
      [] eighths % 8 = 3 -> Complex(-1, 1, 2)
      [] eighths % 8 = 4 -> Complex(-1, 0, 1)
      [] eighths % 8 = 5 -> Complex(-1, -1, 2)
      [] eighths % 8 = 6 -> Complex(0, -1, 1)
      [] eighths % 8 = 7 -> Complex(1, -1, 2)

(* QuantumState.js, continued *)

\* new QuantumState(list) as a new object of the heap; val is its reference
New(hh, list) ==
    With(NewQuantumState([hh EXCEPT !.qs = Append(@, NoObj)], Len(hh.qs) + 1, list),
         LAMBDA r : IF r.err # "ok" THEN Throw(hh, r.err, r.tr)
                    ELSE Return(r, Len(hh.qs) + 1))

\* a clone() that hands back the object it was called on
cloneAliased(hh, s) == Return(Ok(hh, <<>>), s)

\* a clone() that also copies the set of entanglements
cloneKeepingEntanglements(hh, s) ==
    With(New(hh, hh.qs[s].basis),
         LAMBDA r : IF r.err # "ok" THEN r
                    ELSE [r EXCEPT !.h.qs[r.val] =
                             [hh.qs[s] EXCEPT !.basis = r.h.qs[r.val].basis]])

\* clone(): a new object from the entries, then the flags and the
\* measurement history copied over; the entanglements are not copied
clone(hh, s) ==
    With(New(hh, hh.qs[s].basis),
         LAMBDA r : IF r.err # "ok" THEN r
                    ELSE [r EXCEPT !.h.qs[r.val].isCollapsed = hh.qs[s].isCollapsed,
                                   !.h.qs[r.val].collapsedValue = hh.qs[s].collapsedValue,
                                   !.h.qs[r.val].measurementHistory =
                                       hh.qs[s].measurementHistory])

(* Interference.js *)

\* 1e-12, as the exponent of the power of ten
PRUNE_EPSILON == 12

\* the weights argument: null, or an array of (integer) numbers
NullWeights == [null |-> TRUE, w |-> <<>>]

WeightArray(w) == [null |-> FALSE, w |-> w]

RECURSIVE SumSquares(_, _)
SumSquares(w, i) == IF i > Len(w) THEN 0 ELSE w[i] * w[i] + SumSquares(w, i + 1)

\* _resolveWeights(size, weights): 1/sqrt(size) each by default, else the
\* weights divided by the root of the sum of their squares
resolveWeights(size, weights) ==
    IF weights.null
    THEN [err |-> "ok", w |-> [i \in 1..size |-> Real(1, size)]]
    ELSE IF Len(weights.w) # size THEN [err |-> "length-mismatch", w |-> <<>>]
    ELSE LET sumSquares == SumSquares(weights.w, 1)
         IN IF sumSquares = 0 THEN [err |-> "out-of-range", w |-> <<>>]
            ELSE [err |-> "ok", w |-> [i \in 1..size |-> Real(weights.w[i], sumSquares)]]

RECURSIVE AllValues(_, _, _, _)
\* the Set of the keys of all states, in order of first appearance
AllValues(hh, qstates, i, acc) ==
    IF i > Len(qstates) THEN acc
    ELSE LET b == hh.qs[qstates[i]].basis
             fresh == SelectSeq([j \in 1..Len(b) |-> b[j].value],
                                LAMBDA v : \A x \in 1..Len(acc) : acc[x] # v)
         IN AllValues(hh, qstates, i + 1, acc \o fresh)

\* a sum that takes the amplitude of the first state only
WeightedSumOfFirst(hh, qstates, w, value, index) ==
    IF index > 1 THEN zero
    ELSE scale(MapGet(hh.qs[qstates[index]].basis, value), w[index])

RECURSIVE WeightedSum(_, _, _, _, _)
\* total = sum over index of qstates[index].getAmplitude(value).scale(w[index])
WeightedSum(hh, qstates, w, value, index) ==
    IF index > Len(qstates) THEN zero
    ELSE add(scale(MapGet(hh.qs[qstates[index]].basis, value), w[index]),
             WeightedSum(hh, qstates, w, value, index + 1))

\* total.magnitude() > PRUNE_EPSILON, compared on the squares
AbovePruneEpsilon(z) ==
    LET m == magnitudeSquared(z) IN ~LeqPow10(m.n, m.d, 2 * PRUNE_EPSILON)

\* the reference 0 stands for a value that is not a QuantumState
IsQuantumState(hh, s) == s \in 1..Len(hh.qs) /\ hh.qs[s] # NoObj

\* Interference.interfere(qstates, weights)
interfere(hh, qstates, weights) ==
    IF Len(qstates) = 0 THEN Throw(hh, "empty-input", <<>>)
    ELSE IF \E i \in 1..Len(qstates) : ~IsQuantumState(hh, qstates[i])
    THEN Throw(hh, "invalid-argument", <<>>)
    ELSE LET resolved == resolveWeights(Len(qstates), weights)
         IN IF resolved.err # "ok" THEN Throw(hh, resolved.err, <<>>)
            ELSE LET allValues == AllValues(hh, qstates, 1, <<>>)
                     totals == [i \in 1..Len(allValues) |->
                                   [value |-> allValues[i],
                                    amplitude |-> WeightedSum(hh, qstates, resolved.w,
                                                              allValues[i], 1)]]
                 IN With(SelectSeq(totals, LAMBDA e : AbovePruneEpsilon(e.amplitude)),
                         LAMBDA basis : IF Len(basis) = 0
                                        THEN Throw(hh, "degenerate-state", <<>>)
                                        ELSE New(hh, basis))

(* QuantumGates.js *)

\* a hadamard that takes the difference for both components
hadamardDifference(hh, qstate) ==
    IF ~IsQuantumState(hh, qstate) THEN Throw(hh, "invalid-argument", <<>>)
    ELSE LET b == hh.qs[qstate].basis
         IN IF Len(b) # 2 THEN Throw(hh, "out-of-range", <<>>)
            ELSE LET a0 == b[1].amplitude
                     a1 == b[2].amplitude
                     factor == Real(1, 2)
                 IN New(hh, <<[value |-> b[1].value,
                               amplitude |-> scale(subtract(a0, a1), factor)],
                              [value |-> b[2].value,
                               amplitude |-> scale(subtract(a0, a1), factor)]>>)

\* QuantumGates.hadamard(qstate)
hadamard(hh, qstate) ==
    IF ~IsQuantumState(hh, qstate) THEN Throw(hh, "invalid-argument", <<>>)
    ELSE LET b == hh.qs[qstate].basis
         IN IF Len(b) # 2 THEN Throw(hh, "out-of-range", <<>>)
            ELSE LET a0 == b[1].amplitude
                     a1 == b[2].amplitude
                     factor == Real(1, 2)
                 IN New(hh, <<[value |-> b[1].value,
                               amplitude |-> scale(add(a0, a1), factor)],
                              [value |-> b[2].value,
                               amplitude |-> scale(subtract(a0, a1), factor)]>>)

\* a number argument that is an angle: eighths of a turn, or not finite
Angle(eighths) == [finite |-> TRUE, eighths |-> eighths]

NotFiniteAngle == [finite |-> FALSE, eighths |-> 0]

\* a number argument that is not finite, where a real factor is expected
NotFinite == [re |-> 0, im |-> 0, den |-> 0]

\* a targetValues argument: an Array or Set of values, or something else
Targets(values) == [isCollection |-> TRUE, values |-> values]

NotACollection == [isCollection |-> FALSE, values |-> {}]

\* QuantumGates.phase(qstate, targetValue, phaseAngle)
phase(hh, qstate, targetValue, phaseAngle) ==
    IF ~IsQuantumState(hh, qstate) THEN Throw(hh, "invalid-argument", <<>>)
    ELSE IF ~phaseAngle.finite THEN Throw(hh, "invalid-argument", <<>>)
    ELSE IF ~MapHas(hh.qs[qstate].basis, targetValue) THEN Throw(hh, "not-a-member", <<>>)
    ELSE LET phaseFactor == fromPolar(phaseAngle.eighths)
             b == hh.qs[qstate].basis
         IN New(hh, [i \in 1..Len(b) |->
                        IF b[i].value = targetValue
                        THEN [b[i] EXCEPT !.amplitude = multiply(@, phaseFactor)]
                        ELSE b[i]])

\* QuantumGates.rotate(qstate, angle)
rotate(hh, qstate, angle) ==
    IF ~IsQuantumState(hh, qstate) THEN Throw(hh, "invalid-argument", <<>>)
    ELSE IF ~angle.finite THEN Throw(hh, "invalid-argument", <<>>)
    ELSE LET rotor == fromPolar(angle.eighths)
             b == hh.qs[qstate].basis
         IN New(hh, [i \in 1..Len(b) |-> [b[i] EXCEPT !.amplitude = multiply(@, rotor)]])

\* QuantumGates.amplify(qstate, targetValues, factor), the factor a real
amplify(hh, qstate, targetValues, factor) ==
    IF ~IsQuantumState(hh, qstate) THEN Throw(hh, "invalid-argument", <<>>)
    ELSE IF factor = NotFinite \/ factor.re <= 0 THEN Throw(hh, "out-of-range", <<>>)
    ELSE IF ~targetValues.isCollection THEN Throw(hh, "invalid-argument", <<>>)
    ELSE IF targetValues.values = {} THEN Throw(hh, "empty-input", <<>>)
    ELSE LET b == hh.qs[qstate].basis
         IN IF \A i \in 1..Len(b) : b[i].value \notin targetValues.values
            THEN Throw(hh, "not-a-member", <<>>)
            ELSE New(hh, [i \in 1..Len(b) |->
                             IF b[i].value \in targetValues.values
                             THEN [b[i] EXCEPT !.amplitude = scale(@, factor)]
                             ELSE b[i]])

(* QuantumLoops.js: the conditionals *)

\* the keys of the superpositions the operators work on; "" is falsy in JS
OpKeys == {"", "a", "b"}

Truthy(value) == value # ""

\* what a branch, handler or body returns: a plain value, or a QuantumState
\* it has constructed from a list
Plain(value) == [state |-> FALSE, value |-> value, list |-> <<>>]

Super(list) == [state |-> TRUE, value |-> Undefined, list |-> list]

\* a callback argument: a function (f is what it returns for each argument),
\* undefined, or something that is neither
Fn(f) == [kind |-> "function", f |-> f]

NoFn(kind) == [kind |-> kind, f |-> [value \in OpKeys |-> Plain(Undefined)]]

\* the record of one invocation of a callback
Call(fn, value, iteration) == [fn |-> fn, value |-> value, iteration |-> iteration]

WithCalls(r, calls) ==
    [h |-> r.h, err |-> r.err, tr |-> r.tr, val |-> r.val, calls |-> calls]

\* _coerceToState(result), _coerceResultState(result): the basis of the
\* state returned, or of new QuantumState([{value: result, amplitude: 1}])
coerceToState(result) ==
    IF result.state THEN NewQuantumState(EmptyHeap, 1, result.list).h.qs[1].basis
    ELSE <<[value |-> result.value, amplitude |-> One]>>

RECURSIVE AddWeightedOverwriting(_, _, _, _)
\* a merge that keeps the last amplitude that lands on a result value
AddWeightedOverwriting(combined, basis, amplitude, j) ==
    IF j > Len(basis) THEN combined
    ELSE AddWeightedOverwriting(
             MapSet(combined, basis[j].value, multiply(basis[j].amplitude, amplitude)),
             basis, amplitude, j + 1)

RECURSIVE AddWeighted(_, _, _, _)
\* the inner loop of every merge: for each entry of the branch state,
\* combined.set(v, (combined.get(v) || zero).add(a.multiply(amplitude)))
AddWeighted(combined, basis, amplitude, j) ==
    IF j > Len(basis) THEN combined
    ELSE AddWeighted(
             MapSet(combined, basis[j].value,
                    add(MapGet(combined, basis[j].value),
                        multiply(basis[j].amplitude, amplitude))),
             basis, amplitude, j + 1)

\* _buildStateFromMap(amplitudeMap, operation)
buildStateFromMap(hh, amplitudeMap) ==
    IF Len(amplitudeMap) = 0 THEN Throw(hh, "empty-result", <<>>)
    ELSE New(hh, amplitudeMap)

RECURSIVE IfBranchesUnweighted(_, _, _, _, _, _)
\* a loop that adds the branch amplitudes without the condition amplitude
IfBranchesUnweighted(b, i, thenBranch, elseBranch, combined, calls) ==
    IF i > Len(b) THEN [combined |-> combined, calls |-> calls]
    ELSE IfBranchesUnweighted(b, i + 1, thenBranch, elseBranch,
             AddWeighted(combined,
                         coerceToState(IF Truthy(b[i].value)
                                       THEN thenBranch.f[b[i].value]
                                       ELSE elseBranch.f[b[i].value]),
                         One, 1),
             Append(calls, Call(IF Truthy(b[i].value) THEN "then" ELSE "else",
                                b[i].value, 0)))

RECURSIVE IfBranches(_, _, _, _, _, _)
\* the loop of quantumIf over condition.basis.entries()
IfBranches(b, i, thenBranch, elseBranch, combined, calls) ==
    IF i > Len(b) THEN [combined |-> combined, calls |-> calls]
    ELSE LET conditionValue == b[i].value
             branchResult == IF Truthy(conditionValue)
                             THEN thenBranch.f[conditionValue]
                             ELSE elseBranch.f[conditionValue]
         IN IfBranches(b, i + 1, thenBranch, elseBranch,
                AddWeighted(combined, coerceToState(branchResult), b[i].amplitude, 1),
                Append(calls, Call(IF Truthy(conditionValue) THEN "then" ELSE "else",
                                   conditionValue, 0)))

\* QuantumConditionals.quantumIf(condition, thenBranch, elseBranch)
quantumIf(hh, condition, thenBranch, elseBranch) ==
    IF \/ ~IsQuantumState(hh, condition)
       \/ thenBranch.kind # "function"
       \/ elseBranch.kind # "function"
    THEN WithCalls(Throw(hh, "invalid-argument", <<>>), <<>>)
    ELSE With(IfBranches(hh.qs[condition].basis, 1, thenBranch, elseBranch, <<>>, <<>>),
              LAMBDA m : WithCalls(buildStateFromMap(hh, m.combined), m.calls))

\* the cases argument: for each key either no own property or the handler
\* stored under it
NoCase == NoFn("absent")

RECURSIVE SwitchCases(_, _, _, _, _, _)
\* the loop of quantumSwitch over qstate.basis.entries()
SwitchCases(b, i, cases, defaultCase, combined, calls) ==
    IF i > Len(b) THEN [err |-> "ok", combined |-> combined, calls |-> calls]
    ELSE LET value == b[i].value
             own == cases[value].kind # "absent"
             handler == IF own THEN cases[value] ELSE defaultCase
         IN IF handler.kind = "undefined"
            THEN SwitchCases(b, i + 1, cases, defaultCase, combined, calls)
            ELSE IF handler.kind # "function"
            THEN [err |-> "invalid-argument", combined |-> combined, calls |-> calls]
            ELSE SwitchCases(b, i + 1, cases, defaultCase,
                     AddWeighted(combined, coerceToState(handler.f[value]), b[i].amplitude, 1),
                     Append(calls, Call(IF own THEN "case" ELSE "default", value, 0)))

\* QuantumConditionals.quantumSwitch(qstate, cases, defaultCase); cases is
\* a plain object here
quantumSwitch(hh, qstate, cases, defaultCase) ==
    IF ~IsQuantumState(hh, qstate) \/ defaultCase.kind \notin {"function", "undefined"}
    THEN WithCalls(Throw(hh, "invalid-argument", <<>>), <<>>)
    ELSE With(SwitchCases(hh.qs[qstate].basis, 1, cases, defaultCase, <<>>, <<>>),
              LAMBDA m : IF m.err # "ok" THEN WithCalls(Throw(hh, m.err, <<>>), m.calls)
                         ELSE WithCalls(buildStateFromMap(hh, m.combined), m.calls))

(* QuantumLoops.js: the loops *)

RECURSIVE BodyOverEntriesAtZero(_, _, _, _, _, _)
\* a loop that passes 0 to bodyFn as the iteration
BodyOverEntriesAtZero(b, i, iteration, bodyFn, combined, calls) ==
    IF i > Len(b) THEN [combined |-> combined, calls |-> calls]
    ELSE BodyOverEntriesAtZero(b, i + 1, iteration, bodyFn,
             AddWeighted(combined, coerceToState(bodyFn.f[<<b[i].value, 0>>]),
                         b[i].amplitude, 1),
             Append(calls, Call("body", b[i].value, 0)))

RECURSIVE BodyOverEntries(_, _, _, _, _, _)
\* the loop of _applyBodyToState over state.basis.entries()
BodyOverEntries(b, i, iteration, bodyFn, combined, calls) ==
    IF i > Len(b) THEN [combined |-> combined, calls |-> calls]
    ELSE BodyOverEntries(b, i + 1, iteration, bodyFn,
             AddWeighted(combined, coerceToState(bodyFn.f[<<b[i].value, iteration>>]),
                         b[i].amplitude, 1),
             Append(calls, Call("body", b[i].value, iteration)))

\* _applyBodyToState(state, iteration, bodyFn)
applyBodyToState(hh, state, iteration, bodyFn) ==
    With(BodyOverEntries(hh.qs[state].basis, 1, iteration, bodyFn, <<>>, <<>>),
         LAMBDA m : WithCalls(buildStateFromMap(hh, m.combined), m.calls))

RECURSIVE ConditionalBodyOverAll(_, _, _, _, _, _, _)
\* a loop that hands every entry to bodyFn
ConditionalBodyOverAll(b, i, iteration, condition, bodyFn, combined, calls) ==
    IF i > Len(b) THEN [combined |-> combined, calls |-> calls]
    ELSE ConditionalBodyOverAll(b, i + 1, iteration, condition, bodyFn,
             AddWeighted(combined, coerceToState(bodyFn.f[<<b[i].value, iteration>>]),
                         b[i].amplitude, 1),
             Append(calls, Call("body", b[i].value, iteration)))

RECURSIVE ConditionalBodyOverEntries(_, _, _, _, _, _, _)
\* the loop of _applyConditionalBody over state.basis.entries()
ConditionalBodyOverEntries(b, i, iteration, condition, bodyFn, combined, calls) ==
    IF i > Len(b) THEN [combined |-> combined, calls |-> calls]
    ELSE IF ~condition.f[b[i].value]
    THEN ConditionalBodyOverEntries(b, i + 1, iteration, condition, bodyFn,
             MapSet(combined, b[i].value, add(MapGet(combined, b[i].value), b[i].amplitude)),
             calls)
    ELSE ConditionalBodyOverEntries(b, i + 1, iteration, condition, bodyFn,
             AddWeighted(combined, coerceToState(bodyFn.f[<<b[i].value, iteration>>]),
                         b[i].amplitude, 1),
             Append(calls, Call("body", b[i].value, iteration)))

\* _applyConditionalBody(state, iteration, condition, bodyFn)
applyConditionalBody(hh, state, iteration, condition, bodyFn) ==
    With(ConditionalBodyOverEntries(hh.qs[state].basis, 1, iteration, condition,
                                    bodyFn, <<>>, <<>>),
         LAMBDA m : WithCalls(buildStateFromMap(hh, m.combined), m.calls))

\* the scan of quantumWhile: condition(value) for some entry of the basis
AnyTrue(hh, state, condition) ==
    \E i \in 1..Len(hh.qs[state].basis) : condition.f[hh.qs[state].basis[i].value]

\* let currentState = initialState.clone(); const history = [currentState.clone()]
LoopEntry(hh, initialState) ==
    With(clone(hh, initialState),
         LAMBDA c :
            IF c.err # "ok" THEN [h |-> hh, err |-> c.err, current |-> 0, history |-> <<>>]
            ELSE With(clone(c.h, c.val),
                      LAMBDA c2 :
                         IF c2.err # "ok"
                         THEN [h |-> c.h, err |-> c2.err, current |-> 0, history |-> <<>>]
                         ELSE [h |-> c2.h, err |-> "ok", current |-> c.val,
                               history |-> <<c2.val>>]))

---------------------------------------------------------------------------
(* The caller of the operators: one call per behaviour, on a heap of two   *)
(* QuantumStates.  ret is the frame of the call: its arguments, the        *)
(* callback invocations so far, for a loop its local variables, and once   *)
(* pc = "done" its outcome.                                                *)

\* the arrays the QuantumStates are constructed from.  The first: one outcome;
\* two equal outcomes; two outcomes of opposite phase; a falsy and a truthy
\* outcome of probabilities 1/5 and 4/5; three outcomes of probabilities
\* 1/9, 4/9 and 4/9.  The second: two equal outcomes; two of opposite phase.
OpSeedLists(s) ==
    { <<[value |-> "a", amplitude |-> One], [value |-> "b", amplitude |-> One]>>,
      <<[value |-> "a", amplitude |-> One], [value |-> "b", amplitude |-> Complex(-1, 0, 1)]>> }
    \cup IF s = 1
         THEN { <<[value |-> "a", amplitude |-> One]>>,
                <<[value |-> "", amplitude |-> One],
                  [value |-> "a", amplitude |-> Complex(2, 0, 1)]>>,
                <<[value |-> "", amplitude |-> One],
                  [value |-> "a", amplitude |-> Complex(2, 0, 1)],
                  [value |-> "b", amplitude |-> Complex(2, 0, 1)]>> }
         ELSE {}

\* every key of the QuantumState is one the relation functions are defined on
KeysOnly(hh, s) == \A i \in 1..Len(hh.qs[s].basis) : hh.qs[s].basis[i].value \in Keys

\* the heaps the caller starts from: two QuantumStates constructed from
\* arrays and then at most one call on them (a measurement, a setAmplitude
\* that removes an outcome, an Entanglement from the first to the second),
\* whether that call returned or threw
OpInitHeaps ==
    UNION { LET h0 == [EmptyHeap EXCEPT !.qs =
                         [s \in StateIds |-> NewQuantumState(EmptyHeap, s, seed[s]).h.qs[s]]]
            IN {h0, measure(h0, 1, Rat(1, 2)).h, setAmplitude(h0, 1, "a", zero).h}
               \cup IF KeysOnly(h0, 1)
                    THEN {NewEntanglement(h0, 1, 1, 2, fn).h :
                             fn \in {[k \in Keys |-> k], [k \in Keys |-> "a"]}}
                    ELSE {}
            : seed \in {f \in [StateIds -> UNION {OpSeedLists(s) : s \in StateIds}] :
                           \A s \in StateIds : f[s] \in OpSeedLists(s)} }

\* the frame of a call of op on the QuantumStates states with arguments args
Frame(op, states, args) ==
    [op |-> op, states |-> states, args |-> args, pc |-> "done", status |-> "ok",
     val |-> 0, calls |-> <<>>, current |-> 0, history |-> <<>>, iteration |-> 0,
     terminatedByMaxIterations |-> FALSE]

InitOps ==
    /\ h \in OpInitHeaps
    /\ ret = Frame("none", <<>>, [none |-> TRUE])
    /\ failed = FALSE
    /\ ops = 0
    /\ measured = [s \in StateIds |-> Undefined]
    /\ refs = {e \in EntIds : h.es[e] # NoObj}

\* a call that runs to its end in one step
Returned(op, states, args, r, calls) ==
    /\ ops = 0
    /\ ops' = 1
    /\ h' = r.h
    /\ failed' = (r.err # "ok")
    /\ ret' = [Frame(op, states, args) EXCEPT
                  !.status = r.err,
                  !.val = IF r.err = "ok" THEN r.val ELSE 0,
                  !.calls = calls]
    /\ UNCHANGED <<measured, refs>>

\* the QuantumState arguments: the two objects, and a value that is none
StateArgs == {0} \cup StateIds

\* the weights arguments of interfere
WeightArgs ==
    {NullWeights} \cup {WeightArray(w) : w \in {<<1>>, <<1, 1>>, <<1, -1>>, <<1, 2>>, <<0, 1>>, <<0, 0>>}}

\* the amplitudes of the states, weighted, that meet in the sums of interfere
\* can be written over one denominator
InterfereTerms(hh, qstates, weights) ==
    LET resolved == resolveWeights(Len(qstates), weights)
    IN IF resolved.err # "ok" \/ \E i \in 1..Len(qstates) : ~IsQuantumState(hh, qstates[i])
       THEN {}
       ELSE UNION { {scale(hh.qs[qstates[i]].basis[j].amplitude, resolved.w[i]) :
                        j \in 1..Len(hh.qs[qstates[i]].basis)} : i \in 1..Len(qstates) }

\* the arrays of up to two QuantumStates
StateArrays == UNION {[1..n -> StateArgs] : n \in 0..2}

\* the arguments of interfere the number model can follow
InterfereArgs(hh) ==
    {a \in StateArrays \X WeightArgs :
        \A x, y \in InterfereTerms(hh, a[1], a[2]) : Commensurable(x, y)}

Interfere ==
    /\ ops = 0
    /\ \E a \in InterfereArgs(h) :
           Returned("interfere", a[1], [weights |-> a[2]], interfere(h, a[1], a[2]), <<>>)

\* what the branches and handlers passed by the caller return: the value
\* itself, a constant, a superposition of "a" and "b" with amplitudes
\* (1+i)/2 each, and one with amplitudes -(1+i)/2 and (1+i)/2
BranchFns ==
    { [value \in OpKeys |-> Plain(value)],
      [value \in OpKeys |-> Plain("a")],
      [value \in OpKeys |-> Plain("b")],
      [value \in OpKeys |-> Super(<<[value |-> "a", amplitude |-> Complex(1, 1, 1)],
                                    [value |-> "b", amplitude |-> Complex(1, 1, 1)]>>)],
      [value \in OpKeys |-> Super(<<[value |-> "a", amplitude |-> Complex(-1, -1, 1)],
                                    [value |-> "b", amplitude |-> Complex(1, 1, 1)]>>)] }

\* the branch arguments: a function, or a value that is not callable
BranchArgs == {Fn(f) : f \in BranchFns} \cup {NoFn("other")}

QuantumIf ==
    /\ ops = 0
    /\ \E condition \in StateArgs, thenBranch \in BranchArgs, elseBranch \in BranchArgs :
           \E r \in {quantumIf(h, condition, thenBranch, elseBranch)} :
              Returned("quantumIf", <<condition>>,
                       [thenBranch |-> thenBranch, elseBranch |-> elseBranch], r, r.calls)

\* the cases objects: empty, a handler for "a", handlers for "a" and "b"
\* that return superpositions, handlers for all keys, and one whose property
\* "a" holds undefined
CaseArgs ==
    { [value \in OpKeys |-> NoCase],
      [value \in OpKeys |-> IF value = "a" THEN Fn([v \in OpKeys |-> Plain(v)]) ELSE NoCase],
      [value \in OpKeys |->
          IF value = "a"
          THEN Fn([v \in OpKeys |-> Super(<<[value |-> "a", amplitude |-> Complex(1, 1, 1)],
                                            [value |-> "b", amplitude |-> Complex(1, 1, 1)]>>)])
          ELSE IF value = "b"
          THEN Fn([v \in OpKeys |-> Super(<<[value |-> "a", amplitude |-> Complex(-1, -1, 1)],
                                            [value |-> "b", amplitude |-> Complex(1, 1, 1)]>>)])
          ELSE NoCase],
      [value \in OpKeys |-> Fn([v \in OpKeys |-> Plain("b")])],
      [value \in OpKeys |-> IF value = "a" THEN NoFn("undefined") ELSE NoCase] }

\* the defaultCase arguments: none, a function, a value that is not callable
DefaultArgs ==
    {NoFn("undefined"), Fn([v \in OpKeys |-> Plain(v)]), Fn([v \in OpKeys |-> Plain("a")]),
     NoFn("other")}

QuantumSwitch ==
    /\ ops = 0
    /\ \E qstate \in StateArgs, cases \in CaseArgs, defaultCase \in DefaultArgs :
           \E r \in {quantumSwitch(h, qstate, cases, defaultCase)} :
              Returned("quantumSwitch", <<qstate>>,
                       [cases |-> cases, defaultCase |-> defaultCase], r, r.calls)

\* the bodies passed by the caller: the value itself; the next value
\* ("" to "a", "a" to "b"); "a" in even iterations and "b" in odd ones; a
\* superposition of "a" and "b"; superpositions that cancel on "a" when
\* the outcomes "a" and "b" meet with equal amplitudes
BodyFns ==
    { [p \in OpKeys \X (0..MaxIter) |-> Plain(p[1])],
      [p \in OpKeys \X (0..MaxIter) |-> Plain(IF p[1] = "" THEN "a" ELSE "b")],
      [p \in OpKeys \X (0..MaxIter) |-> Plain(IF p[2] % 2 = 0 THEN "a" ELSE "b")],
      [p \in OpKeys \X (0..MaxIter) |->
          Super(<<[value |-> "a", amplitude |-> Complex(1, 1, 1)],
                  [value |-> "b", amplitude |-> Complex(1, 1, 1)]>>)],
      [p \in OpKeys \X (0..MaxIter) |->
          IF p[1] = "b"
          THEN Super(<<[value |-> "a", amplitude |-> Complex(-1, -1, 1)],
                       [value |-> "b", amplitude |-> Complex(1, 1, 1)]>>)
          ELSE Super(<<[value |-> "a", amplitude |-> Complex(1, 1, 1)],
                       [value |-> "b", amplitude |-> Complex(1, 1, 1)]>>)] }

\* the bodyFn arguments: a function, or a value that is not callable
BodyArgs ==
    {Fn(f) : f \in BodyFns}
    \cup {[kind |-> "other", f |-> [p \in OpKeys \X (0..MaxIter) |-> Plain(Undefined)]]}

\* the iteration counts passed: -1 is rejected
CountArgs == -1..MaxIter

\* a call that stops with an error
Thrown(frame, hh, err) ==
    /\ h' = hh
    /\ failed' = TRUE
    /\ ret' = [frame EXCEPT !.pc = "done", !.status = err]

\* quantumFor(iterations, initialState, bodyFn) up to the loop
ForCall ==
    /\ ops = 0
    /\ \E iterations \in CountArgs, initialState \in StateArgs, bodyFn \in BodyArgs :
           /\ ops' = 1
           /\ LET frame == Frame("quantumFor", <<initialState>>,
                                 [iterations |-> iterations, bodyFn |-> bodyFn])
              IN IF iterations < 0 THEN Thrown(frame, h, "out-of-range")
                 ELSE IF ~IsQuantumState(h, initialState) \/ bodyFn.kind # "function"
                 THEN Thrown(frame, h, "invalid-argument")
                 ELSE \E e \in {LoopEntry(h, initialState)} :
                         IF e.err # "ok" THEN Thrown(frame, e.h, e.err)
                         ELSE /\ h' = e.h
                              /\ failed' = FALSE
                              /\ ret' = [frame EXCEPT !.pc = "for", !.status = "running",
                                                      !.current = e.current,
                                                      !.history = e.history]
           /\ UNCHANGED <<measured, refs>>

\* one round of the loop: currentState = _applyBodyToState(...);
\* history.push(currentState.clone())
ForStep ==
    /\ ret.pc = "for"
    /\ ret.iteration < ret.args.iterations
    /\ \E r \in {applyBodyToState(h, ret.current, ret.iteration, ret.args.bodyFn)} :
          LET frame == [ret EXCEPT !.calls = @ \o r.calls]
          IN IF r.err # "ok" THEN Thrown(frame, r.h, r.err)
             ELSE \E c \in {clone(r.h, r.val)} :
                     IF c.err # "ok" THEN Thrown(frame, c.h, c.err)
                     ELSE /\ h' = c.h
                          /\ ret' = [frame EXCEPT !.current = r.val,
                                                  !.history = Append(@, c.val),
                                                  !.iteration = @ + 1]
                          /\ UNCHANGED failed
    /\ UNCHANGED <<ops, measured, refs>>

\* return {finalState: currentState, history}
ForReturn ==
    /\ ret.pc = "for"
    /\ ret.iteration >= ret.args.iterations
    /\ ret' = [ret EXCEPT !.pc = "done", !.status = "ok", !.val = ret.current]
    /\ UNCHANGED <<h, failed, ops, measured, refs>>

\* the conditions passed by the caller: never, always, for every value but
\* "b", for "" only
ConditionFns ==
    { [value \in OpKeys |-> FALSE],
      [value \in OpKeys |-> TRUE],
      [value \in OpKeys |-> value # "b"],
      [value \in OpKeys |-> value = ""] }

\* the condition arguments: a function, or a value that is not callable
ConditionArgs ==
    {Fn(f) : f \in ConditionFns} \cup {[kind |-> "other", f |-> [value \in OpKeys |-> FALSE]]}

\* a loop test that admits one round more
WithinLimitInclusive(iteration, maxIterations) == iteration <= maxIterations

\* while (iteration < maxIterations)
WithinLimit(iteration, maxIterations) == iteration < maxIterations

\* quantumWhile(condition, bodyFn, initialState, maxIterations) up to the loop
WhileCall ==
    /\ ops = 0
    /\ \E condition \in ConditionArgs, bodyFn \in BodyArgs, initialState \in StateArgs,
          maxIterations \in CountArgs :
           /\ ops' = 1
           /\ LET frame == Frame("quantumWhile", <<initialState>>,
                                 [condition |-> condition, bodyFn |-> bodyFn,
                                  maxIterations |-> maxIterations])
              IN IF \/ condition.kind # "function"
                    \/ bodyFn.kind # "function"
                    \/ ~IsQuantumState(h, initialState)
                 THEN Thrown(frame, h, "invalid-argument")
                 ELSE IF maxIterations < 0 THEN Thrown(frame, h, "out-of-range")
                 ELSE \E e \in {LoopEntry(h, initialState)} :
                         IF e.err # "ok" THEN Thrown(frame, e.h, e.err)
                         ELSE /\ h' = e.h
                              /\ failed' = FALSE
                              /\ ret' = [frame EXCEPT !.pc = "while", !.status = "running",
                                                      !.current = e.current,
                                                      !.history = e.history]
           /\ UNCHANGED <<measured, refs>>

\* one round of the loop with anyTrue: currentState =
\* _applyConditionalBody(...); history.push(currentState.clone()); iteration += 1
WhileStep ==
    /\ ret.pc = "while"
    /\ WithinLimit(ret.iteration, ret.args.maxIterations)
    /\ AnyTrue(h, ret.current, ret.args.condition)
    /\ \E r \in {applyConditionalBody(h, ret.current, ret.iteration,
                                       ret.args.condition, ret.args.bodyFn)} :
          LET frame == [ret EXCEPT !.calls = @ \o r.calls]
          IN IF r.err # "ok" THEN Thrown(frame, r.h, r.err)
             ELSE \E c \in {clone(r.h, r.val)} :
                     IF c.err # "ok" THEN Thrown(frame, c.h, c.err)
                     ELSE /\ h' = c.h
                          /\ ret' = [frame EXCEPT !.current = r.val,
                                                  !.history = Append(@, c.val),
                                                  !.iteration = @ + 1]
                          /\ UNCHANGED failed
    /\ UNCHANGED <<ops, measured, refs>>

\* the return inside the loop: no value satisfies the condition
WhileStop ==
    /\ ret.pc = "while"
    /\ WithinLimit(ret.iteration, ret.args.maxIterations)
    /\ ~AnyTrue(h, ret.current, ret.args.condition)
    /\ ret' = [ret EXCEPT !.pc = "done", !.status = "ok", !.val = ret.current,
                          !.terminatedByMaxIterations = FALSE]
    /\ UNCHANGED <<h, failed, ops, measured, refs>>

\* the return after the loop
WhileLimit ==
    /\ ret.pc = "while"
    /\ ~WithinLimit(ret.iteration, ret.args.maxIterations)
    /\ ret' = [ret EXCEPT !.pc = "done", !.status = "ok", !.val = ret.current,
                          !.terminatedByMaxIterations = TRUE]
    /\ UNCHANGED <<h, failed, ops, measured, refs>>

\* the angles passed to phase and rotate: none, an eighth, a quarter and
\* half a turn, and a value that is not finite
AngleArgs == {Angle(0), Angle(1), Angle(2), Angle(4), NotFiniteAngle}

\* the targetValues passed to amplify
TargetArgs ==
    {Targets({}), Targets({"a"}), Targets({"", "b"}), Targets({"c"}), NotACollection}

\* the factors passed to amplify: 3/2 (the default), 1/2, 0, -1 and a value
\* that is not finite
FactorArgs == {Real(3, 4), Real(1, 4), Real(0, 1), Real(-1, 1), NotFinite}

Hadamard ==
    /\ ops = 0
    /\ \E qstate \in StateArgs :
          Returned("hadamard", <<qstate>>, [none |-> TRUE], hadamard(h, qstate), <<>>)

Phase ==
    /\ ops = 0
    /\ \E qstate \in StateArgs, targetValue \in OpKeys, phaseAngle \in AngleArgs :
          Returned("phase", <<qstate>>,
                   [targetValue |-> targetValue, phaseAngle |-> phaseAngle],
                   phase(h, qstate, targetValue, phaseAngle), <<>>)

Rotate ==
    /\ ops = 0
    /\ \E qstate \in StateArgs, angle \in AngleArgs :
          Returned("rotate", <<qstate>>, [angle |-> angle], rotate(h, qstate, angle), <<>>)

Amplify ==
    /\ ops = 0
    /\ \E qstate \in StateArgs, targetValues \in TargetArgs, factor \in FactorArgs :
          Returned("amplify", <<qstate>>,
                   [targetValues |-> targetValues, factor |-> factor],
                   amplify(h, qstate, targetValues, factor), <<>>)

NextOps ==
    \/ Interfere
    \/ QuantumIf
    \/ QuantumSwitch
    \/ ForCall
    \/ ForStep
    \/ ForReturn
    \/ WhileCall
    \/ WhileStep
    \/ WhileStop
    \/ WhileLimit
    \/ Hadamard
    \/ Phase
    \/ Rotate
    \/ Amplify

SpecOps == InitOps /\ [][NextOps]_vars

\* the guard of ForStep
ForStepEnabled == ret.pc = "for" /\ ret.iteration < ret.args.iterations

\* the guard of WhileStep
WhileStepEnabled ==
    /\ ret.pc = "while"
    /\ WithinLimit(ret.iteration, ret.args.maxIterations)
    /\ AnyTrue(h, ret.current, ret.args.condition)

\* quantumFor and quantumWhile are synchronous: once called, the loop runs on
\* until it returns or throws. Each of its steps is weakly fair; for the two
\* rounds, which are enabled exactly when their guards hold, weak fairness is
\* written out with the guard in the place of ENABLED.
SpecOpsFair ==
    /\ SpecOps
    /\ WF_vars(ForReturn)
    /\ WF_vars(WhileStop)
    /\ WF_vars(WhileLimit)
    /\ ([]<>(~ForStepEnabled) \/ []<><<ForStep>>_vars)
    /\ ([]<>(~WhileStepEnabled) \/ []<><<WhileStep>>_vars)

---------------------------------------------------------------------------
(* C11 *)

\* the weight of state i as the caller gave it: 1 each by default
GivenWeight(weights, i) == IF weights.null THEN 1 ELSE weights.w[i]

RECURSIVE GivenSum(_, _, _, _, _)
\* the sum over the states from i on of weight times amplitude at k
GivenSum(hh, qstates, weights, k, i) ==
    IF i > Len(qstates) THEN zero
    ELSE add(scale(MapGet(hh.qs[qstates[i]].basis, k), Real(GivenWeight(weights, i), 1)),
             GivenSum(hh, qstates, weights, k, i + 1))

RECURSIVE GivenTotal(_, _, _, _)
\* the total squared magnitude of the sums at the keys in S
GivenTotal(hh, qstates, weights, S) ==
    IF S = {} THEN RatZero
    ELSE LET k == CHOOSE x \in S : TRUE
         IN RatAdd(magnitudeSquared(GivenSum(hh, qstates, weights, k, 1)),
                   GivenTotal(hh, qstates, weights, S \ {k}))

\* the union of the keys of the states
UnionOfKeys(hh, qstates) ==
    UNION { {hh.qs[qstates[i]].basis[j].value : j \in 1..Len(hh.qs[qstates[i]].basis)} :
            i \in 1..Len(qstates) }

\* a non-empty array of QuantumStates, and weights that are absent or as
\* many as the states and not all zero
InterfereArgsAccepted(hh, qstates, weights) ==
    /\ Len(qstates) > 0
    /\ \A i \in 1..Len(qstates) : IsQuantumState(hh, qstates[i])
    /\ weights.null \/ (Len(weights.w) = Len(qstates) /\ SumSquares(weights.w, 1) > 0)

\* C11: interfere on accepted arguments fails with degenerate-state exactly
\* when the weighted sum of the amplitudes is zero at every key of the union
\* of the bases, and otherwise returns a normalized superposition whose
\* amplitude at every key is that weighted sum (weights 1 when none are
\* given) divided by the root of the total squared magnitude of the sums;
\* a key whose sum is zero is absent.
C11_InterfereWeightedSum ==
    [][ (ret'.op = "interfere" /\ InterfereArgsAccepted(h, ret'.states, ret'.args.weights)) =>
          LET qstates == ret'.states
              weights == ret'.args.weights
              total == GivenTotal(h, qstates, weights, OpKeys)
              cancelled == \A k \in UnionOfKeys(h, qstates) :
                              IsZero(GivenSum(h, qstates, weights, k, 1))
          IN /\ ret'.status \in {"ok", "degenerate-state"}
             /\ (ret'.status = "degenerate-state") <=> cancelled
             /\ ret'.status = "ok" =>
                   /\ Valid(h'.qs[ret'.val])
                   /\ \A k \in OpKeys :
                         /\ MapGet(h'.qs[ret'.val].basis, k) =
                               scaleInvSqrt(GivenSum(h, qstates, weights, k, 1), total)
                         /\ MapHas(h'.qs[ret'.val].basis, k) <=>
                               ~IsZero(GivenSum(h, qstates, weights, k, 1)) ]_vars

\* two different two-outcome states interfered with default weights: one key
\* of the union cancelled and is absent, the other has probability 1
C11_Witness ==
    /\ ret.op = "interfere"
    /\ ret.status = "ok"
    /\ ret.args.weights.null
    /\ Len(ret.states) = 2
    /\ ret.states[1] # ret.states[2]
    /\ Len(h.qs[ret.states[1]].basis) = 2
    /\ Len(h.qs[ret.states[2]].basis) = 2
    /\ Len(h.qs[ret.val].basis) = 1
    /\ magnitudeSquared(h.qs[ret.val].basis[1].amplitude) = Rat(1, 1)

---------------------------------------------------------------------------
(* C12 *)

\* the branch quantumIf is to take for an outcome of the condition
BranchFor(value, thenBranch, elseBranch) ==
    IF Truthy(value) THEN thenBranch ELSE elseBranch

RECURSIVE BranchSum(_, _, _, _, _)
\* the sum over the outcomes of the condition from i on of the amplitude of
\* the outcome times the amplitude at k of what its branch returns
BranchSum(b, thenBranch, elseBranch, k, i) ==
    IF i > Len(b) THEN zero
    ELSE add(multiply(b[i].amplitude,
                      MapGet(coerceToState(BranchFor(b[i].value, thenBranch,
                                                     elseBranch).f[b[i].value]), k)),
             BranchSum(b, thenBranch, elseBranch, k, i + 1))

RECURSIVE BranchTotal(_, _, _, _)
\* the total squared magnitude of the sums at the keys in S
BranchTotal(b, thenBranch, elseBranch, S) ==
    IF S = {} THEN RatZero
    ELSE LET k == CHOOSE x \in S : TRUE
         IN RatAdd(magnitudeSquared(BranchSum(b, thenBranch, elseBranch, k, 1)),
                   BranchTotal(b, thenBranch, elseBranch, S \ {k}))

\* every outcome's branch returns a plain value, a different one each
DistinctPlainResults(b, thenBranch, elseBranch) ==
    LET res(i) == BranchFor(b[i].value, thenBranch, elseBranch).f[b[i].value]
    IN /\ \A i \in 1..Len(b) : ~res(i).state
       /\ \A i, j \in 1..Len(b) : i # j => res(i).value # res(j).value

\* C12: quantumIf on a QuantumState and two functions calls, for each outcome
\* of the condition in basis order, thenBranch if the outcome is truthy and
\* elseBranch if it is falsy, once and with the outcome as argument; when it
\* returns, the amplitude of the result at every key is the sum over the
\* outcomes of outcome amplitude times branch-result amplitude at the key,
\* divided by the root of the total squared magnitude; when the branches
\* return distinct plain values each has the probability of its outcome.
C12_QuantumIfMerges ==
    [][ ( /\ ret'.op = "quantumIf"
          /\ IsQuantumState(h, ret'.states[1])
          /\ ret'.args.thenBranch.kind = "function"
          /\ ret'.args.elseBranch.kind = "function" ) =>
          LET b == h.qs[ret'.states[1]].basis
              thenBranch == ret'.args.thenBranch
              elseBranch == ret'.args.elseBranch
              total == BranchTotal(b, thenBranch, elseBranch, OpKeys)
          IN /\ ret'.calls =
                   [i \in 1..Len(b) |->
                       Call(IF Truthy(b[i].value) THEN "then" ELSE "else", b[i].value, 0)]
             /\ ret'.status = "ok" =>
                   /\ Valid(h'.qs[ret'.val])
                   /\ \A k \in OpKeys :
                         MapGet(h'.qs[ret'.val].basis, k) =
                            scaleInvSqrt(BranchSum(b, thenBranch, elseBranch, k, 1), total)
                   /\ DistinctPlainResults(b, thenBranch, elseBranch) =>
                         \A i \in 1..Len(b) :
                            magnitudeSquared(
                               MapGet(h'.qs[ret'.val].basis,
                                      BranchFor(b[i].value, thenBranch,
                                                elseBranch).f[b[i].value].value))
                            = magnitudeSquared(b[i].amplitude) ]_vars

\* a condition with a falsy outcome of probability 1/5 and a truthy one of
\* probability 4/5, the branches returning two different plain values: the
\* value of the else branch has probability 1/5, that of the then branch 4/5
C12_Witness ==
    /\ ret.op = "quantumIf"
    /\ ret.status = "ok"
    /\ Len(ret.calls) = 2
    /\ ret.calls[1].fn = "else"
    /\ ret.calls[2].fn = "then"
    /\ ~ret.args.thenBranch.f[ret.calls[2].value].state
    /\ ~ret.args.elseBranch.f[ret.calls[1].value].state
    /\ magnitudeSquared(MapGet(h.qs[ret.val].basis,
                               ret.args.elseBranch.f[ret.calls[1].value].value)) = Rat(1, 5)
    /\ magnitudeSquared(MapGet(h.qs[ret.val].basis,
                               ret.args.thenBranch.f[ret.calls[2].value].value)) = Rat(4, 5)

---------------------------------------------------------------------------
(* C13 *)

\* the handler of an outcome as the caller reads it: casesMap[value] when
\* that is a function, else defaultFn
HandlerFor(cases, defaultCase, value) ==
    IF cases[value].kind = "function" THEN cases[value] ELSE defaultCase

\* the handler of an outcome as quantumSwitch looks it up: the own property
\* of cases when there is one, whatever it holds, else defaultCase
OwnHandlerFor(cases, defaultCase, value) ==
    IF cases[value].kind # "absent" THEN cases[value] ELSE defaultCase

RECURSIVE HandlerSum(_, _, _, _, _, _)
\* the sum over the outcomes from i on that have a handler by the lookup
\* lookup(cases, defaultCase, value) of outcome amplitude times
\* handler-result amplitude at k
HandlerSum(lookup(_, _, _), b, cases, defaultCase, k, i) ==
    IF i > Len(b) THEN zero
    ELSE LET handler == lookup(cases, defaultCase, b[i].value)
         IN IF handler.kind # "function"
            THEN HandlerSum(lookup, b, cases, defaultCase, k, i + 1)
            ELSE add(multiply(b[i].amplitude,
                              MapGet(coerceToState(handler.f[b[i].value]), k)),
                     HandlerSum(lookup, b, cases, defaultCase, k, i + 1))

RECURSIVE HandlerTotal(_, _, _, _, _)
HandlerTotal(lookup(_, _, _), b, cases, defaultCase, S) ==
    IF S = {} THEN RatZero
    ELSE LET k == CHOOSE x \in S : TRUE
         IN RatAdd(magnitudeSquared(HandlerSum(lookup, b, cases, defaultCase, k, 1)),
                   HandlerTotal(lookup, b, cases, defaultCase, S \ {k}))

\* quantumSwitch was called on a QuantumState, with cases whose properties
\* hold functions or undefined, and with a function or nothing as defaultCase
SwitchArgsAccepted(hh, r) ==
    /\ r.op = "quantumSwitch"
    /\ IsQuantumState(hh, r.states[1])
    /\ r.args.defaultCase.kind \in {"function", "undefined"}
    /\ \A value \in OpKeys : r.args.cases[value].kind \in {"absent", "undefined", "function"}

\* the statement of C13 for one way of looking up the handler
Routes(lookup(_, _, _), hh, r, hh2) ==
    LET b == hh.qs[r.states[1]].basis
        cases == r.args.cases
        defaultCase == r.args.defaultCase
        handled == SelectSeq(b, LAMBDA e : lookup(cases, defaultCase, e.value).kind = "function")
        total == HandlerTotal(lookup, b, cases, defaultCase, OpKeys)
    IN /\ r.calls = [i \in 1..Len(handled) |->
                        Call(IF cases[handled[i].value].kind = "function"
                             THEN "case" ELSE "default",
                             handled[i].value, 0)]
       /\ Len(handled) = 0 => r.status = "empty-result"
       /\ (Len(handled) > 0 /\ total.n > 0) => r.status = "ok"
       /\ r.status = "ok" =>
             /\ SumMagnitudeSquared(hh2.qs[r.val].basis, 1) = Rat(1, 1)
             /\ \A k \in OpKeys :
                   MapGet(hh2.qs[r.val].basis, k) =
                      scaleInvSqrt(HandlerSum(lookup, b, cases, defaultCase, k, 1), total)

\* C13: quantumSwitch calls, for each outcome in basis order, casesMap[v]
\* when that is a handler and else defaultFn, and makes no call for an
\* outcome with neither; it fails with empty-result when no outcome has a
\* handler, returns whenever some outcome has one and the merged amplitudes
\* do not all cancel, and the result then has total probability 1 with the
\* merged amplitudes of the handled outcomes, renormalized.
C13_SwitchRoutes ==
    [][ SwitchArgsAccepted(h, ret') => Routes(HandlerFor, h, ret', h') ]_vars

\* the same with the handler looked up as the code does: an own property of
\* cases that holds undefined leaves the outcome without handler even when
\* defaultCase is given
C13_SwitchRoutesByOwnProperty ==
    [][ SwitchArgsAccepted(h, ret') => Routes(OwnHandlerFor, h, ret', h') ]_vars

\* a quantumSwitch on two outcomes, one with a case and one with neither a
\* case nor a default: the second is dropped and the result has one outcome
C13_Dropped ==
    /\ ret.op = "quantumSwitch"
    /\ ret.status = "ok"
    /\ Len(h.qs[ret.states[1]].basis) = 2
    /\ Len(ret.calls) = 1
    /\ ret.calls[1].fn = "case"
    /\ ret.args.defaultCase.kind = "undefined"
    /\ \A value \in OpKeys : ret.args.cases[value].kind # "undefined"
    /\ Len(h.qs[ret.val].basis) = 1

---------------------------------------------------------------------------
(* C14 *)

RECURSIVE BodySum(_, _, _, _, _)
\* the sum over the outcomes from i on of outcome amplitude times the
\* amplitude at k of what bodyFn returns for the outcome in the iteration
BodySum(b, bodyFn, iteration, k, i) ==
    IF i > Len(b) THEN zero
    ELSE add(multiply(b[i].amplitude,
                      MapGet(coerceToState(bodyFn.f[<<b[i].value, iteration>>]), k)),
             BodySum(b, bodyFn, iteration, k, i + 1))

RECURSIVE BodyTotal(_, _, _, _)
BodyTotal(b, bodyFn, iteration, S) ==
    IF S = {} THEN RatZero
    ELSE LET k == CHOOSE x \in S : TRUE
         IN RatAdd(magnitudeSquared(BodySum(b, bodyFn, iteration, k, 1)),
                   BodyTotal(b, bodyFn, iteration, S \ {k}))

\* q2 is the body-and-merge step of the iteration applied to q1
IsBodyStep(q1, q2, bodyFn, iteration) ==
    \A k \in OpKeys :
        MapGet(q2.basis, k) =
           scaleInvSqrt(BodySum(q1.basis, bodyFn, iteration, k, 1),
                        BodyTotal(q1.basis, bodyFn, iteration, OpKeys))

RECURSIVE BodyCalls(_, _, _)
\* the calls bodyFn(value, i - 1) for every outcome of snapshot i, for the
\* snapshots from i up to the last but one
BodyCalls(hh, history, i) ==
    IF i >= Len(history) THEN <<>>
    ELSE [j \in 1..Len(hh.qs[history[i]].basis) |->
             Call("body", hh.qs[history[i]].basis[j].value, i - 1)]
         \o BodyCalls(hh, history, i + 1)

\* C14: when quantumFor(n, initialState, bodyFn) returns, history holds
\* n + 1 snapshots, the first equal to initialState (basis, collapsed flag
\* and value, audit log) and the last equal to finalState, each snapshot
\* after the first is the body-and-merge step applied to the one before,
\* and bodyFn has been called for the outcomes of snapshot i with index
\* i - 1, in order and nowhere else: not at all for n = 0, where finalState
\* equals initialState.
C14_ForHistory ==
    (ret.op = "quantumFor" /\ ret.pc = "done" /\ ret.status = "ok") =>
       LET n == ret.args.iterations
           history == ret.history
       IN /\ Len(history) = n + 1
          /\ SameState(h.qs[history[1]], h.qs[ret.states[1]])
          /\ SameState(h.qs[history[n + 1]], h.qs[ret.val])
          /\ \A i \in 1..n :
                IsBodyStep(h.qs[history[i]], h.qs[history[i + 1]], ret.args.bodyFn, i - 1)
          /\ ret.calls = BodyCalls(h, history, 1)
          /\ n = 0 => (ret.calls = <<>> /\ SameState(h.qs[ret.val], h.qs[ret.states[1]]))

\* a quantumFor of two iterations over a two-outcome state, with a body
\* whose result depends on the iteration, has returned
C14_Witness ==
    /\ ret.op = "quantumFor"
    /\ ret.pc = "done"
    /\ ret.status = "ok"
    /\ ret.args.iterations = 2
    /\ Len(h.qs[ret.states[1]].basis) = 2
    /\ ret.args.bodyFn.f[<<"a", 0>>] # ret.args.bodyFn.f[<<"a", 1>>]
    /\ ~SameState(h.qs[ret.history[2]], h.qs[ret.history[3]])

---------------------------------------------------------------------------
(* C15 *)

\* quantumWhile has passed its argument checks and cloned initialState
WhileRunning == ret.op = "quantumWhile" /\ ret.status \in {"running", "ok"}

WhileReturned == ret.op = "quantumWhile" /\ ret.pc = "done" /\ ret.status = "ok"

\* C15: a call of quantumWhile ends, whatever conditionFn answers; it never
\* makes more than maxIterations merge steps, the count it reports is the
\* number of steps made, history holds one snapshot more than that, and with
\* maxIterations = 0 bodyFn is not called.
C15_WhileBounded ==
    /\ [](WhileRunning =>
             /\ ret.iteration <= ret.args.maxIterations
             /\ Len(ret.history) = ret.iteration + 1
             /\ \A i \in 1..Len(ret.calls) : ret.calls[i].iteration < ret.iteration
             /\ ret.args.maxIterations = 0 => ret.calls = <<>>)
    /\ (ret.op = "quantumWhile") ~> (ret.pc = "done")

\* a quantumWhile whose condition holds for every value has returned after
\* maxIterations > 0 steps
C15_Witness ==
    /\ WhileReturned
    /\ \A value \in OpKeys : ret.args.condition.f[value]
    /\ ret.args.maxIterations > 0
    /\ ret.iteration = ret.args.maxIterations
    /\ Len(ret.calls) >= ret.iteration

---------------------------------------------------------------------------
(* C16 *)

\* C16: when quantumWhile returns with no outcome of finalState satisfying
\* conditionFn, terminatedByMaxIterations is false; it is true only after
\* maxIterations iterations with some outcome of finalState still satisfying
\* conditionFn.
C16_FlagTellsCondition ==
    WhileReturned =>
       /\ ~AnyTrue(h, ret.val, ret.args.condition) => ~ret.terminatedByMaxIterations
       /\ ret.terminatedByMaxIterations =>
             /\ ret.iteration = ret.args.maxIterations
             /\ AnyTrue(h, ret.val, ret.args.condition)

\* what the flag does tell: whether the count has reached maxIterations; when
\* it is false no outcome of finalState satisfies conditionFn
C16_FlagTellsCount ==
    WhileReturned =>
       /\ ret.terminatedByMaxIterations <=> (ret.iteration = ret.args.maxIterations)
       /\ ~ret.terminatedByMaxIterations => ~AnyTrue(h, ret.val, ret.args.condition)

---------------------------------------------------------------------------
(* C17 *)

RECURSIVE ConditionalSum(_, _, _, _, _, _)
\* the sum over the outcomes from i on of the amplitude of the outcome itself
\* if it fails the condition and is k, and of outcome amplitude times
\* body-result amplitude at k if it satisfies the condition
ConditionalSum(b, condition, bodyFn, iteration, k, i) ==
    IF i > Len(b) THEN zero
    ELSE add(IF ~condition.f[b[i].value]
             THEN (IF b[i].value = k THEN b[i].amplitude ELSE zero)
             ELSE multiply(b[i].amplitude,
                           MapGet(coerceToState(bodyFn.f[<<b[i].value, iteration>>]), k)),
             ConditionalSum(b, condition, bodyFn, iteration, k, i + 1))

RECURSIVE ConditionalTotal(_, _, _, _, _)
ConditionalTotal(b, condition, bodyFn, iteration, S) ==
    IF S = {} THEN RatZero
    ELSE LET k == CHOOSE x \in S : TRUE
         IN RatAdd(magnitudeSquared(ConditionalSum(b, condition, bodyFn, iteration, k, 1)),
                   ConditionalTotal(b, condition, bodyFn, iteration, S \ {k}))

\* k fails the condition and no call of bodyFn made has returned it
PassesThrough(r, k) ==
    /\ ~r.args.condition.f[k]
    /\ \A i \in 1..Len(r.calls) :
          IsZero(MapGet(coerceToState(r.args.bodyFn.f[<<r.calls[i].value,
                                                       r.calls[i].iteration>>]), k))

\* C17: a round of quantumWhile calls bodyFn for the outcomes that satisfy
\* conditionFn, in basis order, and for no other; the amplitude of the new
\* state at a key is the amplitude of the outcome with that key if it fails
\* the condition plus what the body results contribute to the key, all
\* divided by one factor; in finalState two outcomes that fail the condition
\* and that no body call returned have probabilities in the ratio they had
\* in initialState.
C17_PassThrough ==
    /\ [][ (ret.pc = "while" /\ ret'.pc = "while" /\ ret'.iteration = ret.iteration + 1) =>
             LET b == h.qs[ret.current].basis
                 condition == ret.args.condition
                 bodyFn == ret.args.bodyFn
                 passing == SelectSeq(b, LAMBDA e : condition.f[e.value])
                 total == ConditionalTotal(b, condition, bodyFn, ret.iteration, OpKeys)
             IN /\ ret'.calls = ret.calls \o
                       [i \in 1..Len(passing) |-> Call("body", passing[i].value, ret.iteration)]
                /\ \A k \in OpKeys :
                      MapGet(h'.qs[ret'.current].basis, k) =
                         scaleInvSqrt(ConditionalSum(b, condition, bodyFn, ret.iteration, k, 1),
                                      total) ]_vars
    /\ [](WhileReturned =>
             \A k1, k2 \in OpKeys :
                (PassesThrough(ret, k1) /\ PassesThrough(ret, k2)) =>
                   LET p1 == magnitudeSquared(MapGet(h.qs[ret.states[1]].basis, k1))
                       p2 == magnitudeSquared(MapGet(h.qs[ret.states[1]].basis, k2))
                       q1 == magnitudeSquared(MapGet(h.qs[ret.val].basis, k1))
                       q2 == magnitudeSquared(MapGet(h.qs[ret.val].basis, k2))
                   IN q1.n * q2.d * p2.n * p1.d = q2.n * q1.d * p1.n * p2.d)

\* a quantumWhile on three outcomes has returned after a round in which the
\* body was called for some outcome and returned the key of an outcome that
\* fails the condition, while another outcome that fails it was returned by
\* no call and is still there
C17_Witness ==
    /\ WhileReturned
    /\ ret.iteration >= 1
    /\ Len(h.qs[ret.states[1]].basis) = 3
    /\ \E k \in OpKeys :
          PassesThrough(ret, k) /\ MapHas(h.qs[ret.val].basis, k)
    /\ \E i \in 1..Len(ret.calls), k \in OpKeys :
          /\ ~ret.args.condition.f[k]
          /\ MapHas(h.qs[ret.states[1]].basis, k)
          /\ MapHas(coerceToState(ret.args.bodyFn.f[<<ret.calls[i].value,
                                                      ret.calls[i].iteration>>]), k)
    /\ ~SameState(h.qs[ret.val], h.qs[ret.states[1]])

---------------------------------------------------------------------------
(* C18 *)

\* C18: collapseTo with a key that is not in the basis throws not-a-member
\* and leaves every object as it was (basis, collapsed flag and value,
\* measurement history, of the state and of every other state) and calls no
\* Entanglement; a collapseTo that ends in any other way has written its
\* record for a key that was in the basis.
C18_CollapseToAbsentKey ==
    [][Step("collapseTo") =>
          LET s == ret'.id
              old == h.qs[s].measurementHistory
              new == h'.qs[s].measurementHistory
          IN IF ret'.status = "not-a-member"
             THEN /\ h' = h
                  /\ ret'.tr = <<>>
                  /\ \E value \in Keys : ~MapHas(h.qs[s].basis, value)
             ELSE /\ Len(new) > Len(old)
                  /\ MapHas(h.qs[s].basis, new[Len(old) + 1].result)]_vars

\* collapseTo has thrown not-a-member on a state that is the source of an
\* active Entanglement and has a measurement history
C18_Witness ==
    /\ ret.op = "collapseTo"
    /\ ret.status = "not-a-member"
    /\ h.qs[ret.id].measurementHistory # <<>>
    /\ \E i \in 1..Len(h.qs[ret.id].entanglements) :
          LET e == h.qs[ret.id].entanglements[i]
          IN h.es[e].isActive /\ h.es[e].state1 = ret.id

---------------------------------------------------------------------------
(* C19 *)

\* C19: hadamard on a state with exactly two outcomes, of amplitudes a0 and
\* a1 in basis order, returns a new state that is normalized, has no key but
\* those two, and holds at them a0 + a1 and a0 - a1 divided by one factor; a
\* component that cancels has no entry. On a state with any other number of
\* outcomes it throws out-of-range.
C19_Hadamard ==
    [][(ops' = 1 /\ ret'.op = "hadamard" /\ IsQuantumState(h, ret'.states[1])) =>
          LET b == h.qs[ret'.states[1]].basis
          IN IF Len(b) # 2
             THEN ret'.status = "out-of-range" /\ h' = h
             ELSE LET sum == add(b[1].amplitude, b[2].amplitude)
                      difference == subtract(b[1].amplitude, b[2].amplitude)
                      total == RatAdd(magnitudeSquared(sum), magnitudeSquared(difference))
                      result == h'.qs[ret'.val]
                  IN /\ ret'.status = "ok"
                     /\ ret'.val = Len(h.qs) + 1
                     /\ Valid(result)
                     /\ \A i \in 1..Len(result.basis) :
                           result.basis[i].value \in {b[1].value, b[2].value}
                     /\ MapGet(result.basis, b[1].value) = scaleInvSqrt(sum, total)
                     /\ MapGet(result.basis, b[2].value) = scaleInvSqrt(difference, total)
                     /\ MapHas(result.basis, b[1].value) <=> ~IsZero(sum)
                     /\ MapHas(result.basis, b[2].value) <=> ~IsZero(difference)]_vars

\* hadamard has returned for a state of two equal amplitudes: the difference
\* cancelled and the result has the first key alone
C19_Witness ==
    /\ ret.op = "hadamard"
    /\ ret.status = "ok"
    /\ Len(h.qs[ret.states[1]].basis) = 2
    /\ h.qs[ret.states[1]].basis[1].amplitude = h.qs[ret.states[1]].basis[2].amplitude
    /\ Len(h.qs[ret.val].basis) = 1
    /\ h.qs[ret.val].basis[1].value = h.qs[ret.states[1]].basis[1].value

---------------------------------------------------------------------------
(* C20 *)

\* the call has returned a QuantumState
OpReturned == ops = 1 /\ ret.pc = "done" /\ ret.status = "ok"

\* C20: no step of a gate, of interfere, of quantumIf, quantumSwitch,
\* quantumFor or quantumWhile writes to an object that was there before it:
\* basis, collapsed flag and value, measurement history and entanglements of
\* every state are as they were, and so is every Entanglement, whether the
\* call returns or throws; the state it returns is none of the states that
\* were there when it was called, and has no entanglements.
C20_InputsUntouched ==
    /\ [][/\ Len(h'.qs) >= Len(h.qs)
          /\ \A s \in 1..Len(h.qs) : h'.qs[s] = h.qs[s]
          /\ h'.es = h.es]_vars
    /\ [](OpReturned =>
             /\ ret.val \in (1..Len(h.qs)) \ StateIds
             /\ \A i \in 1..Len(ret.states) : ret.val # ret.states[i]
             /\ h.qs[ret.val].entanglements = <<>>)

\* a call has returned for a state that is the source of an Entanglement
C20_Witness ==
    /\ OpReturned
    /\ \E i \in 1..Len(ret.states) :
          /\ IsQuantumState(h, ret.states[i])
          /\ h.qs[ret.states[i]].entanglements # <<>>
    /\ h.qs[ret.val].basis # <<>>

---------------------------------------------------------------------------
(* The caller of clone(): clones of the QuantumStates, then calls on the   *)
(* clones and on the originals.  ret is as in Spec; val of a clone() is    *)
(* the reference of the new object.                                        *)

\* the heaps the caller of clone() starts from: those of Init, and those
\* after a measurement of the first QuantumState
CloneInitHeaps ==
    InitHeaps \cup {measure(hh, 1, Rat(1, 2)).h : hh \in InitHeaps}

InitClone ==
    /\ h \in CloneInitHeaps
    /\ ret = [op |-> "none", id |-> 0, status |-> "ok", val |-> Undefined,
              drew |-> FALSE, rand |-> RatZero, tr |-> <<>>]
    /\ failed = FALSE
    /\ ops = 0
    /\ measured = [s \in StateIds |-> Undefined]
    /\ refs = {e \in EntIds : h.es[e] # NoObj}

\* the QuantumStates of the heap: the constructed ones and the clones
AllStates == 1..Len(h.qs)

\* the clones
Clones == AllStates \ StateIds

\* clones per behaviour
MaxClones == 1

Clone ==
    \E s \in AllStates :
        /\ Cardinality(Clones) < MaxClones
        /\ \E r \in {clone(h, s)} :
              /\ Called("clone", s, r, FALSE, RatZero)
              /\ h' = r.h
        /\ UNCHANGED <<measured, refs>>

\* the amplitudes setAmplitude(value, .) is called with on an original or a clone
SetAmpsOf(s, value) ==
    {z \in SetAmps : IF z = NotComplex THEN TRUE
                     ELSE CommensurableBasis(MapSet(h.qs[s].basis, value, z))}

SetAmplitudeOf ==
    \E s \in AllStates, value \in Keys :
      \E amplitude \in SetAmpsOf(s, value) :
        /\ \E r \in {setAmplitude(h, s, value, amplitude)} :
              /\ Called("setAmplitude", s, r, FALSE, RatZero)
              /\ h' = r.h
        /\ UNCHANGED <<measured, refs>>

MeasureOf ==
    \E s \in AllStates, rand \in RandSamples :
        /\ \E r \in {measure(h, s, rand)} :
              /\ Called("measure", s, r, r.drew, IF r.drew THEN rand ELSE RatZero)
              /\ h' = r.h
        /\ UNCHANGED <<measured, refs>>

CollapseToOf ==
    \E s \in AllStates, value \in Keys :
        /\ \E r \in {collapseTo(h, s, value, NoMeta, MaxDepth)} :
              /\ Called("collapseTo", s, r, FALSE, RatZero)
              /\ h' = r.h
        /\ UNCHANGED <<measured, refs>>

NextClone ==
    \/ Clone
    \/ SetAmplitudeOf
    \/ MeasureOf
    \/ CollapseToOf

SpecClone == InitClone /\ [][NextClone]_vars

---------------------------------------------------------------------------
(* C21 *)

\* the transition is a setAmplitude, measure or collapseTo
WriterStep ==
    /\ ops' = ops + 1
    /\ ret'.op \in {"setAmplitude", "measure", "collapseTo"}

\* C21: a clone() that returns has added one object to the heap and written
\* to no other; the new object has the basis, the collapsed flag and value
\* and the measurement history of the one it was called on, and no
\* entanglements.  From then on a setAmplitude, measure or collapseTo on a
\* clone, whether it returns or throws, leaves every constructed QuantumState
\* and every Entanglement as they were and runs no derivation, and one on a
\* constructed QuantumState leaves every clone as it was.
C21_CloneIndependent ==
    [][/\ (Step("clone") /\ ret'.status = "ok") =>
             /\ ret'.val = Len(h.qs) + 1
             /\ Len(h'.qs) = Len(h.qs) + 1
             /\ \A s \in AllStates : h'.qs[s] = h.qs[s]
             /\ h'.es = h.es
             /\ h'.qs[ret'.val].basis = h.qs[ret'.id].basis
             /\ h'.qs[ret'.val].isCollapsed = h.qs[ret'.id].isCollapsed
             /\ h'.qs[ret'.val].collapsedValue = h.qs[ret'.id].collapsedValue
             /\ h'.qs[ret'.val].measurementHistory = h.qs[ret'.id].measurementHistory
             /\ h'.qs[ret'.val].entanglements = <<>>
       /\ (WriterStep /\ ret'.id \in Clones) =>
             /\ \A s \in StateIds : h'.qs[s] = h.qs[s]
             /\ h'.es = h.es
             /\ ret'.tr = <<>>
       /\ (WriterStep /\ ret'.id \in StateIds) =>
             /\ Len(h'.qs) = Len(h.qs)
             /\ \A c \in Clones : h'.qs[c] = h.qs[c]]_vars

\* the source of an Entanglement, measured before, was cloned with its
\* record; then the clone was put back into superposition, which left the
\* original and the target collapsed, and the original was collapsed again,
\* which wrote a record to it and to the target and left the clone as it was
C21_Witness ==
    /\ ops = 3
    /\ ~failed
    /\ ret.op = "collapseTo"
    /\ ret.id = 1
    /\ ret.tr # <<>>
    /\ \E c \in Clones :
          /\ Len(h.qs[c].measurementHistory) = 1
          /\ Len(h.qs[1].measurementHistory) = 2
          /\ Len(h.qs[c].basis) = 2
          /\ ~h.qs[c].isCollapsed
          /\ h.qs[1].isCollapsed

---------------------------------------------------------------------------
(* C22 *)

\* the measurement history of s before the transition is a prefix of the one
\* after it
HistoryKept(s) ==
    /\ Len(h'.qs[s].measurementHistory) >= Len(h.qs[s].measurementHistory)
    /\ SubSeq(h'.qs[s].measurementHistory, 1, Len(h.qs[s].measurementHistory))
           = h.qs[s].measurementHistory

\* the records the transition appended to s
NewRecords(s) ==
    SubSeq(h'.qs[s].measurementHistory,
           Len(h.qs[s].measurementHistory) + 1, Len(h'.qs[s].measurementHistory))

RECURSIVE ForcedInto(_, _, _)
\* the collapses the onMeasurement derivations tr[i..] forced on s
ForcedInto(tr, s, i) ==
    IF i > Len(tr) THEN 0
    ELSE (IF tr[i].k = "measurement" /\ h.es[tr[i].e].state2 = s THEN 1 ELSE 0)
         + ForcedInto(tr, s, i + 1)

\* the collapses of s in the transition, a call that collapses: its own, if
\* it is the QuantumState measure or collapseTo was called on, and the forced
CollapsesOf(s) ==
    (IF ret'.op \in {"measure", "collapseTo"} /\ ret'.id = s
        /\ (ret'.op = "measure" => ret'.drew)
     THEN 1 ELSE 0)
    + ForcedInto(ret'.tr, s, 1)

\* the distribution of a QuantumState collapsed to value
Certain(value) == <<[value |-> value, p |-> Rat(1, 1)]>>

\* the distribution s had before the collapse that wrote its j-th new record:
\* a call that collapses changes a QuantumState by collapses only
DistributionBefore(s, j) ==
    IF j = 1 THEN getProbabilities(h, s) ELSE Certain(NewRecords(s)[j - 1].result)

\* the reason the j-th new record of s is to hold
ReasonOf(s, j) ==
    IF j = 1 /\ ret'.id = s /\ ret'.op = "measure" THEN "measurement"
    ELSE IF j = 1 /\ ret'.id = s /\ ret'.op = "collapseTo" THEN "manual-collapse"
    ELSE "entanglement-collapse"

\* a record written for a key that was absent from the distribution
Injected(rec, distribution) ==
    /\ rec.reason = "entanglement-collapse"
    /\ rec.preMeasurementProbs = <<>>
    /\ \A i \in 1..Len(distribution) : distribution[i].value # rec.result

\* the transition is a call that collapses and returns
CollapsingStep ==
    /\ ops' = ops + 1
    /\ ret'.op \in {"measure", "collapseTo", "onMeasurement"}
    /\ ret'.status = "ok"

\* the audit log across a transition: no record of before is removed or
\* altered; a call that collapses and returns has appended one record per
\* collapse, each with its reason, the last with the outcome the
\* QuantumState is left collapsed to, and each with a distribution that
\* PreOk accepts against the one the QuantumState had before that collapse
AuditKept(PreOk(_, _)) ==
    \A s \in StateIds :
        /\ Live(s) => HistoryKept(s)
        /\ (Live(s) /\ CollapsingStep) =>
              /\ Len(NewRecords(s)) = CollapsesOf(s)
              /\ \A j \in 1..Len(NewRecords(s)) :
                    /\ NewRecords(s)[j].reason = ReasonOf(s, j)
                    /\ PreOk(NewRecords(s)[j], DistributionBefore(s, j))
              /\ Len(NewRecords(s)) > 0 =>
                    /\ h'.qs[s].isCollapsed
                    /\ h'.qs[s].collapsedValue
                           = NewRecords(s)[Len(NewRecords(s))].result

\* C22: no call removes or alters a record of the measurement history, and
\* every collapse, by measure, by collapseTo or forced through an
\* Entanglement, appends one record with the outcome, the reason and the
\* distribution the QuantumState had before that collapse.
C22_AuditRecords ==
    [][AuditKept(LAMBDA rec, distribution : rec.preMeasurementProbs = distribution)]_vars

\* as C22, but a collapse forced to a key absent from the target's basis
\* records an empty distribution
C22_AuditRecordsButInjected ==
    [][AuditKept(LAMBDA rec, distribution :
                    \/ rec.preMeasurementProbs = distribution
                    \/ Injected(rec, distribution))]_vars

\* a collapse was forced to a key absent from the target's basis
C22_InjectedReached ==
    /\ ret.op = "measure"
    /\ ret.status = "ok"
    /\ ~failed
    /\ \E s \in StateIds :
          /\ s # ret.id
          /\ Len(h.qs[s].measurementHistory) = 2
          /\ h.qs[s].measurementHistory[2].preMeasurementProbs = <<>>
          /\ h.qs[s].measurementHistory[1].reason = "manual-collapse"

---------------------------------------------------------------------------
(* QuantumLLM.js.  The responses are the keys of the QuantumState; a score  *)
(* is the real number re / sqrt(den), or a value that is not finite.  The   *)
(* verifier is awaited once per outcome; nothing else runs on the objects   *)
(* of the heap between two of its answers.                                  *)

\* 1e-12, as the exponent of the power of ten
VERIFICATION_EPSILON == 12

\* _clamp01(value)
clamp01(value) ==
    IF value = NotFinite THEN Real(0, 1)
    ELSE IF value.re <= 0 THEN Real(0, 1)
    ELSE IF value.re * value.re >= value.den THEN Real(1, 1)
    ELSE value

\* newMagnitude <= 1e-12, compared on the squares
AtMostVerificationEpsilon(z) ==
    LET m == magnitudeSquared(z) IN LeqPow10(m.n, m.d, 2 * VERIFICATION_EPSILON)

RECURSIVE WeightedBasis(_, _, _, _)
\* the loop of measureWithVerification over qstate.basis.entries():
\* fromPolar(magnitude * score, phase) is the amplitude scaled by the score
WeightedBasis(b, verificationFn, i, acc) ==
    IF i > Len(b) THEN acc
    ELSE With(scale(b[i].amplitude, clamp01(verificationFn.f[b[i].value])),
              LAMBDA a : WeightedBasis(b, verificationFn, i + 1,
                             IF AtMostVerificationEpsilon(a) THEN acc
                             ELSE Append(acc, [value |-> b[i].value, amplitude |-> a])))

\* a measureWithVerification that measures the QuantumState it was passed
measureWithVerificationInPlace(hh, qstate, verificationFn, rand) ==
    IF ~IsQuantumState(hh, qstate) THEN Throw(hh, "invalid-argument", <<>>)
    ELSE With(measure(hh, qstate, rand),
              LAMBDA m : [h |-> m.h, err |-> m.err, tr |-> m.tr, val |-> m.val])

\* measureWithVerification(qstate, verificationFn), with rand the value
\* Math.random() returns in measure()
measureWithVerification(hh, qstate, verificationFn, rand) ==
    IF ~IsQuantumState(hh, qstate) THEN Throw(hh, "invalid-argument", <<>>)
    ELSE IF verificationFn.kind # "function" THEN Throw(hh, "invalid-argument", <<>>)
    ELSE With(WeightedBasis(hh.qs[qstate].basis, verificationFn, 1, <<>>),
              LAMBDA weightedBasis :
                 IF Len(weightedBasis) = 0 THEN Throw(hh, "degenerate-state", <<>>)
                 ELSE With(New(hh, weightedBasis),
                           LAMBDA verifiedState :
                              IF verifiedState.err # "ok" THEN verifiedState
                              ELSE With(measure(verifiedState.h, verifiedState.val, rand),
                                        LAMBDA m : [h |-> m.h, err |-> m.err,
                                                    tr |-> m.tr, val |-> m.val])))

---------------------------------------------------------------------------
(* The caller of QuantumLLM: one call of measureWithVerification on the    *)
(* heaps of InitOps                                                        *)

\* the verifiers: accept all; accept "a" only (the test's verifier); halve
\* "a"; reject all; scores outside [0,1] and not finite; and no function
VerificationArgs ==
    { Fn([value \in OpKeys |-> Real(1, 1)]),
      Fn([value \in OpKeys |-> IF value = "a" THEN Real(1, 1) ELSE Real(0, 1)]),
      Fn([value \in OpKeys |-> IF value = "a" THEN Real(1, 4) ELSE Real(1, 1)]),
      Fn([value \in OpKeys |-> Real(0, 1)]),
      Fn([value \in OpKeys |-> IF value = "" THEN NotFinite
                               ELSE IF value = "a" THEN Real(2, 1) ELSE Real(-1, 1)]),
      Fn([value \in OpKeys |-> IF value = "" THEN Real(2, 1)
                               ELSE IF value = "a" THEN Real(-1, 1) ELSE Real(1, 4)]),
      NoFn("undefined") }

\* the frame of the call before it is made; val is the response returned
InitLLM ==
    /\ h \in OpInitHeaps
    /\ ret = [Frame("none", <<>>, [none |-> TRUE]) EXCEPT !.val = Undefined]
    /\ failed = FALSE
    /\ ops = 0
    /\ measured = [s \in StateIds |-> Undefined]
    /\ refs = {e \in EntIds : h.es[e] # NoObj}

MeasureWithVerification ==
    /\ ops = 0
    /\ \E qstate \in StateArgs, verificationFn \in VerificationArgs, rand \in RandSamples :
          \E r \in {measureWithVerification(h, qstate, verificationFn, rand)} :
             /\ ops' = 1
             /\ h' = r.h
             /\ failed' = (r.err # "ok")
             /\ ret' = [Frame("measureWithVerification", <<qstate>>,
                              [verificationFn |-> verificationFn, rand |-> rand])
                           EXCEPT !.status = r.err, !.val = r.val]
    /\ UNCHANGED <<measured, refs>>

NextLLM == MeasureWithVerification

SpecLLM == InitLLM /\ [][NextLLM]_vars

---------------------------------------------------------------------------
(* C23 *)

RatTimes(x, y) == Rat(x.n * y.n, x.d * y.d)

\* the square of a score clamped to [0,1]
ScoreSquared(score) ==
    IF score = NotFinite THEN RatZero
    ELSE IF score.re <= 0 THEN RatZero
    ELSE IF score.re * score.re >= score.den THEN Rat(1, 1)
    ELSE Rat(score.re * score.re, score.den)

\* the probability of the i-th outcome of b times the square of its score
VerifiedWeight(b, f, i) ==
    RatTimes(magnitudeSquared(b[i].amplitude), ScoreSquared(f[b[i].value]))

RECURSIVE VerifiedCumulative(_, _, _)
VerifiedCumulative(b, f, i) ==
    IF i = 0 THEN RatZero
    ELSE RatAdd(VerifiedCumulative(b, f, i - 1), VerifiedWeight(b, f, i))

\* the outcomes that are left: those of new magnitude above 1e-12
VerifiedKept(b, f) ==
    {i \in 1..Len(b) :
        ~LeqPow10(VerifiedWeight(b, f, i).n, VerifiedWeight(b, f, i).d,
                  2 * VERIFICATION_EPSILON)}

\* i is the outcome the sample r selects among the kept, each with its
\* reweighted probability: the first whose cumulative share reaches r, the
\* last when there is none
VerifiedSample(b, f, r, i) ==
    LET Reaches(j) == RatLeq(RatTimes(r, VerifiedCumulative(b, f, Len(b))),
                             VerifiedCumulative(b, f, j))
        kept == VerifiedKept(b, f)
    IN /\ i \in kept
       /\ \A j \in kept : j < i => ~Reaches(j)
       /\ Reaches(i) \/ \A j \in kept : j <= i

\* the transition is a measureWithVerification on a QuantumState with a
\* function
VerificationStep ==
    /\ ops = 0
    /\ ops' = 1
    /\ ret'.op = "measureWithVerification"
    /\ IsQuantumState(h, ret'.states[1])
    /\ ret'.args.verificationFn.kind = "function"

\* C23: measureWithVerification writes to no object that was there before
\* the call: the QuantumState passed in keeps its basis, flags, measurement
\* history and entanglements.  It throws (degenerate-state) when no outcome
\* is left with a new magnitude above 1e-12; otherwise it returns an outcome
\* that is left, whose clamped score is therefore not 0, selected by the
\* sample among the outcomes weighted by probability times squared score.
C23_VerifiedMeasure ==
    [][VerificationStep =>
          LET b == h.qs[ret'.states[1]].basis
              f == ret'.args.verificationFn.f
          IN /\ \A s \in 1..Len(h.qs) : h'.qs[s] = h.qs[s]
             /\ h'.es = h.es
             /\ ret'.status \in {"ok", "degenerate-state"}
             /\ ret'.status = "degenerate-state" <=> VerifiedKept(b, f) = {}
             /\ ret'.status = "ok" =>
                   \E i \in 1..Len(b) :
                      /\ ret'.val = b[i].value
                      /\ ScoreSquared(f[b[i].value]) # RatZero
                      /\ VerifiedSample(b, f, ret'.args.rand, i)]_vars

\* of three outcomes the one of score 2 kept its weight, the one of score -1
\* was dropped and the one of score 1/2 was returned for the sample 9/10;
\* measure() on the state itself would have returned it for every sample
\* above 5/9
C23_Witness ==
    /\ ops = 1
    /\ ret.op = "measureWithVerification"
    /\ ret.status = "ok"
    /\ ret.states = <<1>>
    /\ Len(h.qs[1].basis) = 3
    /\ ret.args.verificationFn.f["a"] = Real(-1, 1)
    /\ ret.args.verificationFn.f["b"] = Real(1, 4)
    /\ ret.args.rand = Rat(9, 10)
    /\ ret.val = "b"
    /\ ~h.qs[1].isCollapsed

---------------------------------------------------------------------------
(* QuantumDebugger.js (src/unnamed/part_004).  A heap that holds a debugger *)
(* has a third field ds, the QuantumDebugger objects: currentState and the  *)
(* state of every entry of steps are references to QuantumStates of qs,    *)
(* listeners is a JS Set of callbacks.                                     *)

\* a label that is empty after trim()
Blank == " "

\* targetIndex and measured of an entry that has none
NoIndex == -1

\* an index argument: an integer, or a value Number.isInteger rejects
Index(n) == [integer |-> TRUE, n |-> n]

NotAnInteger == [integer |-> FALSE, n |-> 0]

\* `rewind->${index}`
RewindLabel(index) ==
    CASE index = 0 -> "rewind->0"
      [] index = 1 -> "rewind->1"
      [] index = 2 -> "rewind->2"
      [] index = 3 -> "rewind->3"
      [] index = 4 -> "rewind->4"
      [] index = 5 -> "rewind->5"

\* an entry of steps
Entry(type, label, state) ==
    [type |-> type, label |-> label, measured |-> Undefined, targetIndex |-> NoIndex,
     state |-> state]

\* new QuantumDebugger(initialState)
NewDebugger(hh, initialState) ==
    IF ~IsQuantumState(hh, initialState) THEN Throw(hh, "invalid-argument", <<>>)
    ELSE With(clone(hh, initialState),
         LAMBDA c1 : IF c1.err # "ok" THEN c1
         ELSE With(clone(c1.h, initialState),
         LAMBDA c2 : IF c2.err # "ok" THEN c2
         ELSE With(clone(c2.h, c2.val),
         LAMBDA c3 : IF c3.err # "ok" THEN c3
         ELSE Return(Ok([c3.h EXCEPT !.ds =
                           Append(@, [initialState |-> c1.val,
                                      currentState |-> c2.val,
                                      steps |-> <<Entry("init", "initial", c3.val)>>,
                                      listeners |-> <<>>])],
                        <<>>),
                     Len(hh.ds) + 1))))

RECURSIVE emit(_, _, _)
\* _emit(): each listener, from the i-th on, is called with a copy of the
\* latest entry's state and a copy of the current state; it returns or throws
emit(hh, d, i) ==
    IF i > Len(hh.ds[d].listeners) THEN Ok(hh, <<>>)
    ELSE With(clone(hh, hh.ds[d].steps[Len(hh.ds[d].steps)].state),
         LAMBDA c1 : IF c1.err # "ok" THEN c1
         ELSE With(clone(c1.h, hh.ds[d].currentState),
         LAMBDA c2 : IF c2.err # "ok" THEN c2
         ELSE IF hh.ds[d].listeners[i] = "throws"
              THEN Throw(c2.h, "listener-error", <<>>)
         ELSE emit(c2.h, d, i + 1)))

\* this.steps.push(entry with state: this.currentState.clone()); this._emit()
pushAndEmit(hh, d, entry) ==
    With(clone(hh, hh.ds[d].currentState),
         LAMBDA c : IF c.err # "ok" THEN c
         ELSE emit([c.h EXCEPT !.ds[d].steps = Append(@, [entry EXCEPT !.state = c.val])],
                   d, 1))

\* what transformFn does with the copy it is passed: (state) =>
\*   QuantumGates.hadamard(state)
\*   { state.setAmplitude('b', state.getAmplitude('a').scale(-1)) }
\*   state.measure(), with rand the value Math.random() returns
\*   state
\*   { throw new Error() }
\* val is what it returns when isState, a QuantumState
Transform(hh, transformFn, input) ==
    CASE transformFn.does = "hadamard" ->
           With(hadamard(hh, input),
                LAMBDA r : [h |-> r.h, err |-> r.err, val |-> r.val, isState |-> TRUE])
      [] transformFn.does = "setAmplitude" ->
           With(setAmplitude(hh, input, "b",
                             scale(MapGet(hh.qs[input].basis, "a"), Real(-1, 1))),
                LAMBDA r : [h |-> r.h, err |-> r.err, val |-> 0, isState |-> FALSE])
      [] transformFn.does = "measure" ->
           With(measure(hh, input, transformFn.rand),
                LAMBDA r : [h |-> r.h, err |-> r.err, val |-> 0, isState |-> FALSE])
      [] transformFn.does = "identity" ->
           [h |-> hh, err |-> "ok", val |-> input, isState |-> TRUE]
      [] transformFn.does = "throw" ->
           [h |-> hh, err |-> "callback-error", val |-> 0, isState |-> FALSE]

\* step(label, transformFn)
step(hh, d, label, transformFn) ==
    IF label = Blank THEN Throw(hh, "invalid-argument", <<>>)
    ELSE IF transformFn.kind # "function" THEN Throw(hh, "invalid-argument", <<>>)
    ELSE With(clone(hh, hh.ds[d].currentState),
         LAMBDA input : IF input.err # "ok" THEN input
         ELSE With(Transform(input.h, transformFn, input.val),
         LAMBDA result : IF result.err # "ok" THEN Throw(result.h, result.err, <<>>)
         ELSE With(IF result.isState THEN clone(result.h, result.val)
                   ELSE Return(Ok(result.h, <<>>), input.val),
         LAMBDA output : IF output.err # "ok" THEN output
         ELSE With(pushAndEmit([output.h EXCEPT !.ds[d].currentState = output.val], d,
                               Entry("step", label, 0)),
         LAMBDA e : IF e.err # "ok" THEN e
         ELSE clone(e.h, e.h.ds[d].currentState)))))

\* checkpoint(label)
checkpoint(hh, d, label) ==
    IF label = Blank THEN Throw(hh, "invalid-argument", <<>>)
    ELSE pushAndEmit(hh, d, Entry("checkpoint", label, 0))

\* QuantumDebugger.measure(label), with rand the value Math.random() returns
measureCurrent(hh, d, label, rand) ==
    IF label = Blank THEN Throw(hh, "invalid-argument", <<>>)
    ELSE With(measure(hh, hh.ds[d].currentState, rand),
         LAMBDA m : IF m.err # "ok" THEN Throw(m.h, m.err, m.tr)
         ELSE With(pushAndEmit(m.h, d, [Entry("measurement", label, 0)
                                           EXCEPT !.measured = m.val]),
         LAMBDA e : IF e.err # "ok" THEN e ELSE Return(e, m.val)))

\* a rewind that takes the recorded state itself as the current state
rewindAliased(hh, d, index) ==
    IF ~index.integer \/ index.n < 0 \/ index.n >= Len(hh.ds[d].steps)
    THEN Throw(hh, "out-of-range", <<>>)
    ELSE With(pushAndEmit([hh EXCEPT !.ds[d].currentState =
                                 hh.ds[d].steps[index.n + 1].state], d,
                          [Entry("rewind", RewindLabel(index.n), 0)
                              EXCEPT !.targetIndex = index.n]),
         LAMBDA e : IF e.err # "ok" THEN e
         ELSE clone(e.h, e.h.ds[d].currentState))

\* rewind(index)
rewind(hh, d, index) ==
    IF ~index.integer \/ index.n < 0 \/ index.n >= Len(hh.ds[d].steps)
    THEN Throw(hh, "out-of-range", <<>>)
    ELSE With(clone(hh, hh.ds[d].steps[index.n + 1].state),
         LAMBDA c : IF c.err # "ok" THEN c
         ELSE With(pushAndEmit([c.h EXCEPT !.ds[d].currentState = c.val], d,
                               [Entry("rewind", RewindLabel(index.n), 0)
                                   EXCEPT !.targetIndex = index.n]),
         LAMBDA e : IF e.err # "ok" THEN e
         ELSE clone(e.h, e.h.ds[d].currentState)))

\* subscribe(listener)
subscribe(hh, d, listener) ==
    IF listener \notin {"returns", "throws"} THEN Throw(hh, "invalid-argument", <<>>)
    ELSE Ok([hh EXCEPT !.ds[d].listeners =
                IF \E i \in 1..Len(@) : @[i] = listener THEN @ ELSE Append(@, listener)],
            <<>>)

---------------------------------------------------------------------------
(* The caller of the debugger: one QuantumState, a QuantumDebugger          *)
(* constructed on it, then calls of its methods.  ret is the last call:    *)
(* val.state is the QuantumState it returned, val.value the outcome.       *)

\* the one debugger
Dbg == 1

DebugInitHeaps ==
    {NewDebugger(New([qs |-> <<>>, es |-> [e \in EntIds |-> NoObj], ds |-> <<>>],
                     list).h, 1).h : list \in OpSeedLists(1)}

NoValue == [state |-> 0, value |-> Undefined]

InitDebug ==
    /\ h \in DebugInitHeaps
    /\ ret = [op |-> "none", args |-> [none |-> TRUE], status |-> "ok", val |-> NoValue]
    /\ failed = FALSE
    /\ ops = 0
    /\ measured = [s \in StateIds |-> Undefined]
    /\ refs = {}

\* the bookkeeping every call of the debugger shares
DebugCalled(op, args, r, val) ==
    /\ ops' = ops + 1
    /\ h' = r.h
    /\ failed' = (failed \/ r.err # "ok")
    /\ ret' = [op |-> op, args |-> args, status |-> r.err,
               val |-> IF r.err = "ok" THEN val ELSE NoValue]
    /\ UNCHANGED <<measured, refs>>

LabelArgs == {"L", Blank}

TransformArgs ==
    { [kind |-> "function", does |-> "hadamard", rand |-> RatZero],
      [kind |-> "function", does |-> "setAmplitude", rand |-> RatZero],
      [kind |-> "function", does |-> "measure", rand |-> Rat(9, 10)],
      [kind |-> "function", does |-> "identity", rand |-> RatZero],
      [kind |-> "function", does |-> "throw", rand |-> RatZero],
      [kind |-> "undefined", does |-> "nothing", rand |-> RatZero] }

\* the indexes passed to rewind: from one below the first entry to one past
\* the last, and a value that is not an integer
IndexArgs == {Index(n) : n \in -1..Len(h.ds[Dbg].steps)} \cup {NotAnInteger}

DebugStep ==
    /\ ops < MaxOps
    /\ \E label \in LabelArgs, transformFn \in TransformArgs :
          \E r \in {step(h, Dbg, label, transformFn)} :
             DebugCalled("step", [label |-> label, transformFn |-> transformFn], r,
                         [state |-> r.val, value |-> Undefined])

DebugCheckpoint ==
    /\ ops < MaxOps
    /\ \E label \in LabelArgs :
          \E r \in {checkpoint(h, Dbg, label)} :
             DebugCalled("checkpoint", [label |-> label], r, NoValue)

DebugMeasure ==
    /\ ops < MaxOps
    /\ \E label \in LabelArgs \cup {"measurement"}, rand \in {Rat(0, 1), Rat(9, 10)} :
          \E r \in {measureCurrent(h, Dbg, label, rand)} :
             DebugCalled("measure", [label |-> label, rand |-> rand], r,
                         [state |-> 0, value |-> r.val])

DebugRewind ==
    /\ ops < MaxOps
    /\ \E index \in IndexArgs :
          \E r \in {rewind(h, Dbg, index)} :
             DebugCalled("rewind", [index |-> index], r,
                         [state |-> r.val, value |-> Undefined])

DebugSubscribe ==
    /\ ops < MaxOps
    /\ \E listener \in {"returns", "throws", "undefined"} :
          \E r \in {subscribe(h, Dbg, listener)} :
             DebugCalled("subscribe", [listener |-> listener], r, NoValue)

NextDebug ==
    \/ DebugStep
    \/ DebugCheckpoint
    \/ DebugMeasure
    \/ DebugRewind
    \/ DebugSubscribe

SpecDebug == InitDebug /\ [][NextDebug]_vars

---------------------------------------------------------------------------
(* C24 *)

\* the entries of the debugger's timeline, and its current state
Timeline(hh) == hh.ds[Dbg].steps

Current(hh) == hh.qs[hh.ds[Dbg].currentState]

\* the type of the entry a call appends
EntryTypeOf(op) ==
    CASE op = "step" -> "step"
      [] op = "checkpoint" -> "checkpoint"
      [] op = "measure" -> "measurement"
      [] op = "rewind" -> "rewind"
      [] OTHER -> "none"

\* the index is that of an entry of the timeline
IndexInRange(index) == index.integer /\ index.n >= 0 /\ index.n < Len(Timeline(h))

\* C24: no call removes, reorders or alters an entry of the timeline or the
\* state recorded with it; a step, checkpoint, measure or rewind that
\* returns has appended one entry of its type, with a copy of the current
\* state; rewind(i) with i the index of an entry has appended a 'rewind'
\* entry with targetIndex i and made the current state a new object with the
\* basis, flags and history of the state recorded at entry i; rewind with
\* any other index throws out-of-range and changes nothing.
C24_Timeline ==
    [][(ops' = ops + 1) =>
          /\ Len(Timeline(h')) >= Len(Timeline(h))
          /\ \A i \in 1..Len(Timeline(h)) :
                /\ Timeline(h')[i] = Timeline(h)[i]
                /\ h'.qs[Timeline(h)[i].state] = h.qs[Timeline(h)[i].state]
          /\ (ret'.status = "ok" /\ EntryTypeOf(ret'.op) # "none") =>
                /\ Len(Timeline(h')) = Len(Timeline(h)) + 1
                /\ Timeline(h')[Len(Timeline(h'))].type = EntryTypeOf(ret'.op)
                /\ Timeline(h')[Len(Timeline(h'))].state \notin 1..Len(h.qs)
                /\ Timeline(h')[Len(Timeline(h'))].state # h'.ds[Dbg].currentState
                /\ SameState(h'.qs[Timeline(h')[Len(Timeline(h'))].state], Current(h'))
          /\ (ret'.status = "ok" /\ EntryTypeOf(ret'.op) = "none") =>
                Timeline(h') = Timeline(h)
          /\ (ret'.op = "rewind" /\ ret'.status = "ok") =>
                /\ IndexInRange(ret'.args.index)
                /\ Timeline(h')[Len(Timeline(h'))].targetIndex = ret'.args.index.n
                /\ h'.ds[Dbg].currentState \notin 1..Len(h.qs)
                /\ SameState(Current(h'),
                             h.qs[Timeline(h)[ret'.args.index.n + 1].state])
          /\ (ret'.op = "rewind" /\ ~IndexInRange(ret'.args.index)) =>
                /\ ret'.status = "out-of-range"
                /\ h' = h]_vars

\* the current state was put in superposition by a step, then measured,
\* then rewound to the entry of the step: the timeline holds the four
\* entries in the order of the calls, the state recorded at the measurement
\* is still collapsed, and the current state is uncollapsed again
C24_Witness ==
    /\ ops = 3
    /\ ~failed
    /\ ret.op = "rewind"
    /\ ret.args.index = Index(1)
    /\ Len(Timeline(h)) = 4
    /\ Timeline(h)[1].type = "init"
    /\ Timeline(h)[2].type = "step"
    /\ Timeline(h)[3].type = "measurement"
    /\ Timeline(h)[4].type = "rewind"
    /\ Len(h.qs[Timeline(h)[1].state].basis) = 1
    /\ h.qs[Timeline(h)[3].state].isCollapsed
    /\ Timeline(h)[3].measured = h.qs[Timeline(h)[3].state].collapsedValue
    /\ ~Current(h).isCollapsed
    /\ Len(Current(h).basis) = 2
    /\ Current(h).measurementHistory = <<>>

---------------------------------------------------------------------------
(* The caller of a chain: three QuantumStates, an Entanglement from the    *)
(* first to the second and one from the second to the third, both          *)
(* constructed without error, then calls on the three                      *)

\* the third QuantumState of the chain
ChainEnd == 3

\* the heaps with the chain 1 -> 2 -> 3
ChainInitHeaps ==
    UNION { LET h2 == [EmptyHeap EXCEPT !.qs =
                         [s \in StateIds |-> NewQuantumState(EmptyHeap, s, seed[s]).h.qs[s]]]
                h3 == New(h2, <<[value |-> "a", amplitude |-> One]>>).h
            IN { NewEntanglement(NewEntanglement(h3, 1, 1, 2, fn[1]).h,
                                 2, 2, ChainEnd, fn[2]).h :
                    fn \in {g \in [1..2 -> RelationFns] :
                              /\ NewEntanglement(h3, 1, 1, 2, g[1]).err = "ok"
                              /\ NewEntanglement(NewEntanglement(h3, 1, 1, 2, g[1]).h,
                                                 2, 2, ChainEnd, g[2]).err = "ok"} }
            : seed \in {f \in [StateIds -> UNION {SeedLists(s) : s \in StateIds}] :
                           /\ f[1] \in SeedLists(1)
                           /\ f[2] = <<[value |-> "a", amplitude |-> One]>>} }

InitChain ==
    /\ h \in ChainInitHeaps
    /\ ret = [op |-> "none", id |-> 0, status |-> "ok", val |-> Undefined,
              drew |-> FALSE, rand |-> RatZero, tr |-> <<>>]
    /\ failed = FALSE
    /\ ops = 0
    /\ measured = [s \in StateIds |-> Undefined]
    /\ refs = {e \in EntIds : h.es[e] # NoObj}

\* calls on the chain per behaviour
MaxChainOps == 2

ChainSetAmplitude == ops < MaxChainOps /\ SetAmplitudeOf

ChainMeasure == ops < MaxChainOps /\ MeasureOf

ChainCollapseTo == ops < MaxChainOps /\ CollapseToOf

NextChain ==
    \/ ChainSetAmplitude
    \/ ChainMeasure
    \/ ChainCollapseTo

SpecChain == InitChain /\ [][NextChain]_vars

---------------------------------------------------------------------------
(* C25 *)

\* the QuantumState is collapsed to value
CollapsedTo(q, value) ==
    /\ q.isCollapsed
    /\ q.collapsedValue = value
    /\ q.basis = <<[value |-> value, amplitude |-> One]>>

\* the transition is a measure() or collapseTo on the head of the chain that
\* collapsed it and returned
HeadCollapsed ==
    /\ ops' = ops + 1
    /\ ret'.id = 1
    /\ ret'.status = "ok"
    /\ \/ ret'.op = "measure" /\ ret'.drew
       \/ ret'.op = "collapseTo"

\* the value the head is left collapsed to
HeadValue == h'.qs[1].collapsedValue

\* C25: when a measure() or collapseTo on the first QuantumState of the
\* chain returns with outcome v, the second is collapsed to f(v) and the
\* third to g(f(v)), whatever the bases of the second and third were.
C25_CascadeReachesEnd ==
    [][HeadCollapsed =>
          /\ CollapsedTo(h'.qs[1], HeadValue)
          /\ CollapsedTo(h'.qs[2], h.es[1].relationFn[HeadValue])
          /\ CollapsedTo(h'.qs[ChainEnd],
                         h.es[2].relationFn[h.es[1].relationFn[HeadValue]])]_vars

\* what the code does: the second is collapsed to f(v); the third is
\* collapsed to g(f(v)) when f(v) was a key of the second before the call,
\* and is left as it was when f(v) was absent and injected
C25_CascadeStopsAtInjection ==
    [][HeadCollapsed =>
          /\ CollapsedTo(h'.qs[1], HeadValue)
          /\ CollapsedTo(h'.qs[2], h.es[1].relationFn[HeadValue])
          /\ IF MapHas(h.qs[2].basis, h.es[1].relationFn[HeadValue])
             THEN CollapsedTo(h'.qs[ChainEnd],
                              h.es[2].relationFn[h.es[1].relationFn[HeadValue]])
             ELSE h'.qs[ChainEnd] = h.qs[ChainEnd]]_vars

\* no call has thrown; the second QuantumState was measured, then the first,
\* with an outcome that maps to another key: the third is still collapsed to
\* the image of the second's earlier outcome
C25_StaleEndReached ==
    /\ ~failed
    /\ ops = 2
    /\ ret.op = "measure"
    /\ ret.id = 1
    /\ ret.drew
    /\ CollapsedTo(h.qs[2], h.es[1].relationFn[ret.val])
    /\ h.qs[ChainEnd].isCollapsed
    /\ h.qs[ChainEnd].collapsedValue # h.es[2].relationFn[h.es[1].relationFn[ret.val]]
    /\ Len(h.qs[2].measurementHistory) = 2

---------------------------------------------------------------------------
(* C26 *)

\* the transition is a constructor of Entanglement that threw
EntangleFailed == Step("entangle") /\ ret'.status # "ok"

\* C26: after a constructor of Entanglement that threw, the entanglements
\* of every QuantumState are as they were before it, and no later call runs
\* a derivation of an Entanglement whose constructor did not return.
C26_FailedConstructorNotRegistered ==
    [][/\ EntangleFailed =>
             \A s \in StateIds : h'.qs[s].entanglements = h.qs[s].entanglements
       /\ (ops' = ops + 1) =>
             \A i \in 1..Len(ret'.tr) : ret'.tr[i].e \in refs']_vars

\* what the code does: a constructor that rejects its arguments (state1 and
\* state2 the same object) leaves the heap as it was; one that fails in the
\* initial derivation leaves the new Entanglement active and in the
\* entanglements of both of its QuantumStates
C26_RegisteredBeforeDerivation ==
    [][EntangleFailed =>
          IF ret'.status = "invalid-argument" THEN h' = h
          ELSE /\ h'.es[ret'.id].isActive
               /\ InSet(h', ret'.id, h'.es[ret'.id].state1)
               /\ InSet(h', ret'.id, h'.es[ret'.id].state2)
               /\ ret'.id \notin refs']_vars

\* a setAmplitude on the source has run the derivation of an Entanglement
\* whose constructor threw
C26_InvokedAfterFailure ==
    /\ ret.op = "setAmplitude"
    /\ \E i \in 1..Len(ret.tr) :
          /\ ret.tr[i].e \notin refs
          /\ h.es[ret.tr[i].e].state1 = ret.id

---------------------------------------------------------------------------
(* C27 *)

\* the call threw in the one derivation it ran: relationFn returned
\* undefined, or the induced amplitudes summed to zero
OneDerivationFailed ==
    /\ ops' = ops + 1
    /\ Len(ret'.tr) = 1
    /\ ret'.status \in {"relation-undefined", "degenerate-state"}

\* state2 of the Entanglement whose derivation the call ran
DerivedTarget == h'.es[ret'.tr[1].e].state2

\* C27: when the one derivation a call ran has failed, state2 of its
\* Entanglement has the basis, collapsed flag and value and audit log it had
\* before the call, is non-empty with total probability 1, and its flags
\* agree with its basis.
C27_FailedDerivationLeavesTarget ==
    [][OneDerivationFailed =>
          /\ SameState(h'.qs[DerivedTarget], h.qs[DerivedTarget])
          /\ Valid(h'.qs[DerivedTarget])
          /\ FlagsConsistent(h'.qs[DerivedTarget])]_vars

\* what the code does: when relationFn returned undefined, state2 is as it
\* was before the call; when the
\* induced amplitudes summed to zero, state2 holds the induced basis, of
\* total probability zero, with its flags and audit log as before the call
C27_TargetReplacedBeforeNormalize ==
    [][OneDerivationFailed =>
          IF ret'.status = "relation-undefined"
          THEN SameState(h'.qs[DerivedTarget], h.qs[DerivedTarget])
          ELSE /\ ~h'.qs[h'.es[ret'.tr[1].e].state1].isCollapsed
               /\ h'.qs[DerivedTarget].basis =
                     InducedBasis(h'.qs[h'.es[ret'.tr[1].e].state1].basis,
                                  h'.es[ret'.tr[1].e].relationFn, 1, <<>>).basis
               /\ SumMagnitudeSquared(h'.qs[DerivedTarget].basis, 1) = RatZero
               /\ h'.qs[DerivedTarget].isCollapsed = h.qs[DerivedTarget].isCollapsed
               /\ h'.qs[DerivedTarget].collapsedValue = h.qs[DerivedTarget].collapsedValue
               /\ h'.qs[DerivedTarget].measurementHistory =
                     h.qs[DerivedTarget].measurementHistory]_vars

\* an updateEntanglement has thrown on amplitudes that cancel and left its
\* collapsed state2 with a basis of total probability zero
C27_ZeroTargetReached ==
    /\ ret.op = "updateEntanglement"
    /\ ret.status = "degenerate-state"
    /\ Len(ret.tr) = 1
    /\ h.qs[h.es[ret.id].state2].isCollapsed
    /\ SumMagnitudeSquared(h.qs[h.es[ret.id].state2].basis, 1) = RatZero

---------------------------------------------------------------------------
(* C28 *)

RECURSIVE AllPairs(_, _, _)
\* the list of all (branch key, branch amplitude times input amplitude)
\* pairs, in the order of the entries of b and of each branch state
AllPairs(b, f, i) ==
    IF i > Len(b) THEN <<>>
    ELSE With(coerceToState(f[b[i].value]),
              LAMBDA branch :
                 [j \in 1..Len(branch) |->
                     [value |-> branch[j].value,
                      amplitude |-> multiply(branch[j].amplitude, b[i].amplitude)]]
                 \o AllPairs(b, f, i + 1))

\* the finished call threw as new QuantumState(AllPairs) throws, or returned
\* a QuantumState with the basis of new QuantumState(AllPairs)
MergedAs(f) ==
    \E m \in {New(EmptyHeap, AllPairs(h.qs[ret.states[1]].basis, f, 1))} :
       /\ (ret.status = "ok") = (m.err = "ok")
       /\ ret.status = "ok" => h.qs[ret.val].basis = m.h.qs[m.val].basis

\* the call is one of the four with the same function f in every place:
\* quantumIf(s, f, f), quantumSwitch(s, {}, f), quantumFor(1, s, f),
\* quantumWhile(always-true, f, s, 1)
SameBranchIf ==
    /\ ret.op = "quantumIf"
    /\ ret.args.thenBranch.kind = "function"
    /\ ret.args.elseBranch = ret.args.thenBranch

SameBranchSwitch ==
    /\ ret.op = "quantumSwitch"
    /\ ret.args.cases = [value \in OpKeys |-> NoCase]
    /\ ret.args.defaultCase.kind = "function"

\* bodyFn is a function of the value alone
OfValueAlone(bodyFn) ==
    /\ bodyFn.kind = "function"
    /\ \A p \in DOMAIN bodyFn.f : bodyFn.f[p] = bodyFn.f[<<p[1], 0>>]

SameBranchFor ==
    /\ ret.op = "quantumFor"
    /\ ret.args.iterations = 1
    /\ OfValueAlone(ret.args.bodyFn)

SameBranchWhile ==
    /\ ret.op = "quantumWhile"
    /\ ret.args.maxIterations = 1
    /\ ret.args.condition = Fn([value \in OpKeys |-> TRUE])
    /\ OfValueAlone(ret.args.bodyFn)

\* the body as a function of the value
AsBranch(bodyFn) == [value \in OpKeys |-> bodyFn.f[<<value, 0>>]]

\* C28: once finished on a QuantumState s, each of quantumIf(s, f, f),
\* quantumSwitch(s, {}, f), quantumFor(1, s, f) and quantumWhile(always-true,
\* f, s, 1) has thrown if and only if new QuantumState(list) throws, and has
\* otherwise returned a state whose basis is that of new QuantumState(list),
\* for list the (branch key, input amplitude times branch amplitude) pairs
\* of s and f; so the four bases are identical.
C28_OneMergeAlgebra ==
    (ret.pc = "done" /\ ret.states # <<>> /\ IsQuantumState(h, ret.states[1])) =>
        /\ SameBranchIf => MergedAs(ret.args.thenBranch.f)
        /\ SameBranchSwitch => MergedAs(ret.args.defaultCase.f)
        /\ SameBranchFor => MergedAs(AsBranch(ret.args.bodyFn))
        /\ SameBranchWhile => MergedAs(AsBranch(ret.args.bodyFn))

\* quantumWhile(always-true, f, s, 1) has returned after its one round, on a
\* two-outcome s and an f whose branch states cancel on one key
C28_Witness ==
    /\ SameBranchWhile
    /\ ret.pc = "done"
    /\ ret.status = "ok"
    /\ ret.iteration = 1
    /\ ret.terminatedByMaxIterations
    /\ Len(h.qs[ret.states[1]].basis) = 2
    /\ Len(ret.calls) = 2
    /\ Len(h.qs[ret.val].basis) = 1
    /\ MergedAs(AsBranch(ret.args.bodyFn))

---------------------------------------------------------------------------
(* C29 *)

\* the transition is a call of one of SourceOps on state2 of the active
\* Entanglement e
CalledOnTarget(e) ==
    /\ ActiveEnt(h, e)
    /\ ops' = ops + 1
    /\ ret'.op \in SourceOps
    /\ ret'.id = h.es[e].state2

\* C29 (as claimed): a measure, collapseTo, setAmplitude, normalize or
\* stabilize on state2 of an active Entanglement leaves the basis, collapsed
\* flag and value and audit log of its state1 as they were.
C29_TargetNeverChangesSource ==
    [][\A e \in EntIds :
          CalledOnTarget(e) =>
             SameState(h'.qs[h.es[e].state1], h.qs[h.es[e].state1])]_vars

\* C29 (amended): the same, when no active Entanglement has state1 as its
\* state2; and then the call runs no derivation of the Entanglement.
C29_TargetNeverChangesSourceUnlessLinkedBack ==
    [][\A e \in EntIds :
          (CalledOnTarget(e) /\ NoInbound(h, h.es[e].state1)) =>
             /\ SameState(h'.qs[h.es[e].state1], h.qs[h.es[e].state1])
             /\ \A i \in 1..Len(ret'.tr) : ret'.tr[i].e # e]_vars

\* a measure() has drawn a value on state2 of an active Entanglement that
\* holds it in both sets, while its state1, no Entanglement's state2, is
\* still in superposition
C29_Witness ==
    /\ ret.op = "measure"
    /\ ret.status = "ok"
    /\ ret.drew
    /\ \E e \in EntIds :
          /\ ActiveEnt(h, e)
          /\ h.es[e].state2 = ret.id
          /\ InSet(h, e, ret.id)
          /\ InSet(h, e, h.es[e].state1)
          /\ NoInbound(h, h.es[e].state1)
          /\ ~h.qs[h.es[e].state1].isCollapsed

---------------------------------------------------------------------------
(* C30 *)

\* the calls that propagate through Entanglements
PropagatingOps == {"measure", "collapseTo", "setAmplitude", "normalize", "entangle"}

\* C30: no measure, collapseTo, setAmplitude, normalize or constructor of
\* Entanglement ends with the call stack exhausted by nested derivations.
C30_PropagationTerminates ==
    ret.op \in PropagatingOps => ret.status # "stack-overflow"

\* every active Entanglement's state1 is no active Entanglement's state2
NoLinkBack(hh) ==
    \A e \in EntIds : ActiveEnt(hh, e) => NoInbound(hh, hh.es[e].state1)

\* what the code does: a call returns or throws without exhausting the stack
\* when, the Entanglement it constructs included, no active Entanglement
\* starts at another's state2
C30_TerminatesWithoutLinkBack ==
    [][(ops' = ops + 1 /\ NoLinkBack(h')) => ret'.status # "stack-overflow"]_vars

\* the constructor of an Entanglement back from state2 to state1 of another
\* has exhausted the stack: both states were collapsed to the same key and
\* each relationFn maps that key to itself, so every nested collapseTo
\* finds the state it started from
C30_EndlessCollapseReached ==
    /\ ret.op = "entangle"
    /\ ret.status = "stack-overflow"
    /\ \E x \in EntIds \ {ret.id} :
          /\ ActiveEnt(h, x)
          /\ h.es[x].state1 = h.es[ret.id].state2
          /\ h.es[x].state2 = h.es[ret.id].state1
          /\ \E k \in Keys :
                /\ h.es[x].relationFn[k] = k
                /\ h.es[ret.id].relationFn[k] = k
                /\ \A s \in StateIds :
                      /\ h.qs[s].isCollapsed
                      /\ h.qs[s].collapsedValue = k
                      /\ Len(h.qs[s].measurementHistory) >= 1

====
